---- MODULE Spec2Model ----
(***************************************************************************)
(* The dialog orchestrator (convai/dialog_manager.py, DialogManager) with  *)
(* the parts of the two gateways (convai/conversation_gateways.py) that    *)
(* decide which orchestrator calls can be made and when, and the bots'     *)
(* gateway (BotsGateway): the queue of envelopes of each bot, get_updates, *)
(* the answers to sendMessage and the guard against profile leaks.         *)
(*                                                                         *)
(* Everything runs on one asyncio event loop.  A handler runs without      *)
(* interruption up to its next real suspension (an executor call, a        *)
(* messenger send, an asyncio.gather): one action of this module is one    *)
(* such run.  A suspended handler is a record in the bag `tasks`; its pc   *)
(* names the code that runs when it is resumed.  A scheduler job that has  *)
(* fired is a task that has not run yet: the job has left the job store    *)
(* (removing it raises JobLookupError, which _unschedule_safe swallows)    *)
(* and its coroutine starts on a later iteration of the loop.              *)
(***************************************************************************)
EXTENDS Integers, Sequences, FiniteSets, Bags, TLC

Users == {"u1", "u2"}
Bots == {"b1"}

\* Bounds of the model.
MaxConvs == 2
MaxMsgs == 3
MaxTasks == 2
MaxCalls == 2
MaxTopics == 2
MaxBegins == 3
MaxParts == 1
MaxStreak == 3
MaxPuts == 4
MaxComplaints == 1
MaxTime == 1

\* The n_bad_messages_in_a_row_threshold of a configuration with the guard on.
BadMessagesThreshold == 2

\* len(assigned_profile.sentences) of the profiles in the database.
ProfileSentences == 1

\* Messages per conversation under SpecCalls.
MaxCallMsgs == 1

\* dialog_options['max_length'], as the length test sets it.
LengthThreshold == 2

\* dialog_options['assign_profile'] and evaluation_options['guess_profile'].
GuessProfile == TRUE

VARIABLES
    lobby,                  \* _lobby: user -> state of the user's lobby Job
    activeDialogs,          \* keys of _active_dialogs
    conversations,          \* the Conversation objects ever registered, by id
    evaluations,            \* _evaluations: id -> <<flags of side 1, of side 2>>
    dialogTimeoutHandlers,  \* _dialog_timeout_handlers: id -> state of the Job
    schedulerJobs,          \* scheduler: id -> inactivity jobs waiting in the job store
    tasks,                  \* suspended (or not yet started) coroutines
    userState,              \* HumansGateway._user_states
    gwConversations,        \* HumansGateway._conversations: user -> conv id
    bots,                   \* Bot.objects(banned=False)
    bannedPairs,            \* BannedPair.objects: <<user, bot>> pairs
    bannedUsers,            \* the users whose record has banned = True
    complaints,             \* Complaint.objects, in the order they were saved
    savedConversations,     \* Conversation.objects: id -> the document as last saved
    rejected,               \* ids whose on_message_received raised 'Conversation is finished'
    refused,                \* <<user, error>> of the on_human_initiated_dialog calls that raised
    invalid,                \* the validation errors the public methods have raised
    begins,                 \* accepted /begin commands so far
    startEvaluationCalls,   \* id -> calls of start_evaluation for each participant
    finishConversationCalls,\* id -> calls of finish_conversation on each gateway of it
    botQueues,              \* BotsGateway._bot_queues: bot -> envelopes waiting to be polled
    puts,                   \* bot -> number of put_nowait calls on its queue so far
    lastUpdateId,           \* Bot.last_update_id, as saved
    updates,                \* the result of the last get_updates call that returned
    delivered,              \* bot -> every update returned to it so far, in order
    trigrams,               \* BotsGateway._active_chats_trigrams: id -> bad_messages_in_a_row
    replies,                \* bot -> what its last sendMessage request was answered
    nBadMessagesThreshold,  \* dialog_options['n_bad_messages_in_a_row_threshold']
    allowSetBot,            \* dialog_options['allow_set_bot']
    profileDescription,     \* the description of the profile a bot was assigned, as characters
    msgText,                \* the text of a bot's message, as characters
    waitForStartsTask,      \* asyncio.wait_for(q.get(), 0) lets q.get() run before it times out
    returned,               \* what the call of the last step that ended within it returned or raised
    sent                    \* <<user, message key>>: the notices HumansGateway sent in the last step

vars == <<lobby, activeDialogs, conversations, evaluations, dialogTimeoutHandlers,
          schedulerJobs,
          tasks, userState, gwConversations, bots, bannedPairs, bannedUsers, complaints,
          savedConversations,
          rejected, refused, invalid,
          begins,
          startEvaluationCalls, finishConversationCalls,
          botQueues, puts, lastUpdateId, updates, delivered, trigrams, replies,
          nBadMessagesThreshold, waitForStartsTask, allowSetBot, profileDescription, msgText,
          returned, sent>>

timerVars == <<dialogTimeoutHandlers, schedulerJobs>>
dmVars == <<lobby, activeDialogs, conversations, evaluations, timerVars>>
gwVars == <<userState, gwConversations>>
dbVars == <<bots, bannedPairs, bannedUsers, complaints, savedConversations>>
callVars == <<startEvaluationCalls, finishConversationCalls>>
errVars == <<rejected, refused, invalid>>
optVars == <<nBadMessagesThreshold, waitForStartsTask, allowSetBot, profileDescription, msgText>>
pollVars == <<lastUpdateId, updates, delivered>>
mailVars == <<botQueues, puts, pollVars, optVars>>
bgVars == <<mailVars, trigrams, replies>>

----------------------------------------------------------------------------
(* Helpers on dictionaries and on the bag of tasks *)

Put(f, k, v) == [x \in DOMAIN f \cup {k} |-> IF x = k THEN v ELSE f[x]]
Drop(f, k) == [x \in DOMAIN f \ {k} |-> f[x]]

Bump(n) == IF n < MaxCalls THEN n + 1 ELSE n

\* The parameters of a getUpdates request as handle_bot_get_updates passes
\* them on: a parameter that is missing or empty is None (given = FALSE).
Request(timeout_given, timeout, limit_given, limit) ==
    [timeout_given |-> timeout_given, timeout |-> timeout,
     limit_given |-> limit_given, limit |-> limit]

NoRequest == Request(FALSE, 0, FALSE, 0)

NoTask == [op |-> "none", pc |-> "none", conv |-> 0, peer |-> "none",
           other |-> "none", msg_id |-> 0, pend |-> {},
           req |-> NoRequest, seen |-> <<>>, base |-> 0, got |-> <<>>]

Spawn(t) == tasks (+) SetToBag({t})
Finish(t) == tasks (-) SetToBag({t})
Resume(t, t2) == (tasks (-) SetToBag({t})) (+) SetToBag({t2})
At(label) == {t \in BagToSet(tasks) : t.pc = label}
CanSpawn == BagCardinality(tasks) < MaxTasks

\* Nothing has been returned, raised or told to a user.
NoOutput == returned = "" /\ sent = {}

\* A step in which no call returns or raises and no user is told anything.
Silent == returned' = "" /\ sent' = {}

----------------------------------------------------------------------------
(* EvaluationState flags *)

NONE == {}
SCORE_GIVEN == {"SCORE_GIVEN"}
PROFILE_SELECTED == {"PROFILE_SELECTED"}
COMPLETE == SCORE_GIVEN \cup PROFILE_SELECTED

----------------------------------------------------------------------------
(* Conversation objects *)

\* An optional field is a sequence: empty for None, else of the one value.
None == << >>
Some(v) == <<v>>

\* evaluation_options['evaluation_score_from'] and ['evaluation_score_to'],
\* as the tests of the orchestrator set them.
DialogEvalMin == 1
DialogEvalMax == 5

Conversation(p1, p2, nt) ==
    [participants |-> <<p1, p2>>,
     messages |-> <<>>,
     triggered_dialog_end |-> <<FALSE, FALSE>>,
     active_topic_index |-> 0,
     topics_n |-> nt,
     selected_parts |-> <<<< >>, << >>>>,
     dialog_evaluation_score |-> <<None, None>>,
     other_peer_profile_options |-> <<0, 0>>,
     other_peer_profile_selected |-> <<None, None>>]

\* The time of the messages whose time is not varied: the date the messenger
\* reports, datetime.utcnow() in the bots' gateway, datetime.now() of a topic
\* switch.
Now == 0

\* Every message numbered zero.
MessageZero(conv, sender, system, time) ==
    [msg_id |-> 0, sender |-> sender, system |-> system, time |-> time,
     evaluation_score |-> None]

\* A numbering of messages that starts at one.
MessageFromOne(conv, sender, system, time) ==
    [msg_id |-> Len(conv.messages) + 1, sender |-> sender, system |-> system, time |-> time,
     evaluation_score |-> None]

Message(conv, sender, system, time) ==
    [msg_id |-> Len(conv.messages), sender |-> sender, system |-> system, time |-> time,
     evaluation_score |-> None]

PeerIdx(conv, peer) == IF conv.participants[1] = peer THEN 1 ELSE 2

ActiveDialogsPeers ==
    {conversations[c].participants[i] : c \in activeDialogs, i \in {1, 2}}

\* A validation that does not look at the participants.
ConversationActive(c, peer) == c \in activeDialogs

ValidConversationAndPeer(c, peer) ==
    /\ c \in activeDialogs
    /\ \E i \in {1, 2} : conversations[c].participants[i] = peer

\* The message of the ValueError _validate_conversation_and_peer raises.
ValidationError(c, peer) ==
    IF c \notin activeDialogs
    THEN "There is no active conversation"
    ELSE "Peer is not a part of the conversation"

\* A public method called with (c, peer) raised the validation error.
Invalid(c, peer) == invalid' = invalid \cup {ValidationError(c, peer)}

\* A draw of random.getrandbits(31) that no conversation has had and no
\* instantiation holds.
NewConvId == Cardinality(DOMAIN conversations) + Cardinality(At("inst_lookup")) + 1

----------------------------------------------------------------------------
(* Scheduler jobs *)

UnscheduleLobbyTimeout(l, user) == Drop(l, user)

\* The inactivity jobs of conversation c waiting in the job store.
Pending(jobs, c) == IF c \in DOMAIN jobs THEN jobs[c] ELSE 0

\* A job store in which no job is ever removed.
NeverRemoved(jobs, h, c) == jobs

\* The job store after _unschedule_safe(job): job.remove() takes a waiting
\* job out; for a job that has run it raises JobLookupError, which is caught.
Removed(jobs, h, c) ==
    IF c \in DOMAIN h /\ h[c] = "scheduled" THEN Put(jobs, c, Pending(jobs, c) - 1) ELSE jobs

\* DialogManager._unschedule_inactivity_timer
UnscheduleTimer(c) ==
    /\ dialogTimeoutHandlers' = Drop(dialogTimeoutHandlers, c)
    /\ schedulerJobs' = Removed(schedulerJobs, dialogTimeoutHandlers, c)

\* A reset that removes the job and schedules none.
ResetWithoutSchedule(c) == UnscheduleTimer(c)

\* DialogManager._reset_inactivity_timer
ResetTimer(c) ==
    /\ dialogTimeoutHandlers' = Put(Drop(dialogTimeoutHandlers, c), c, "scheduled")
    /\ schedulerJobs' =
          LET jobs == Removed(schedulerJobs, dialogTimeoutHandlers, c)
          IN  Put(jobs, c, Pending(jobs, c) + 1)

----------------------------------------------------------------------------
(* The bots' gateway: one queue of envelopes per bot, polled with getUpdates *)

\* The message_id of the envelope that starts the evaluation, and of the
\* answer to a bot's '/end'.
EvaluationMessageId == 1000000

\* BotsGateway._get_message_dict; seq is the position of the put_nowait call
\* that queued the envelope among the calls on the bot's queue, and text
\* tells '/start...' and '/end...' from the text of a peer.
Envelope(n, c, msg_id, text) ==
    [seq |-> n, chat |-> c, message_id |-> msg_id, text |-> text]

\* q.put_nowait(msg) on the queue of bot b, one of at most MaxPuts
Enqueue(b, c, msg_id, text) ==
    /\ puts[b] < MaxPuts
    /\ botQueues' = [botQueues EXCEPT
           ![b] = Append(@, Envelope(puts[b] + 1, c, msg_id, text))]
    /\ puts' = [puts EXCEPT ![b] = @ + 1]

\* The answer bot_endpoint_handler gives to a sendMessage request: the
\* envelope with the message id, or the class of the exception.
Reply(ok, c, msg_id, error) ==
    [ok |-> ok, chat |-> c, message_id |-> msg_id, error |-> error]

NoReply == Reply(FALSE, 0, 0, "none")

\* The handler t ends: when it serves a bot's sendMessage, the bot is
\* answered with the id of its message (error = "") or with the error.
Answered(t, error) ==
    replies' =
        IF t.peer \in Bots
        THEN [replies EXCEPT ![t.peer] =
                 IF error = ""
                 THEN Reply(TRUE, t.conv,
                            IF t.op = "bot_end" THEN EvaluationMessageId ELSE t.msg_id, "")
                 ELSE Reply(FALSE, t.conv, 0, error)]
        ELSE replies

\* BotsGateway.__init__, and the Bot records as registered
Constructed ==
    /\ botQueues = [b \in Bots |-> <<>>]
    /\ puts = [b \in Bots |-> 0]
    /\ lastUpdateId = [b \in Bots |-> 1]
    /\ updates = <<>>
    /\ delivered = [b \in Bots |-> <<>>]
    /\ trigrams = <<>>
    /\ replies = [b \in Bots |-> NoReply]

\* No text is looked at.
NoText == profileDescription = << >> /\ msgText = << >>

\* The trigram guard is configured off (threshold 0); the event loop is one
\* on which asyncio.wait_for starts the awaitable before its timeout runs out.
GuardOff ==
    /\ nBadMessagesThreshold = 0
    /\ waitForStartsTask = TRUE
    /\ allowSetBot = FALSE
    /\ NoText

----------------------------------------------------------------------------
\* The state after DialogManager and the gateways were constructed.
Started ==
    /\ lobby = <<>>
    /\ activeDialogs = {}
    /\ conversations = <<>>
    /\ evaluations = <<>>
    /\ dialogTimeoutHandlers = <<>>
    /\ schedulerJobs = <<>>
    /\ tasks = EmptyBag
    /\ userState = [u \in Users |-> "IDLE"]
    /\ gwConversations = <<>>
    /\ bots \in SUBSET Bots
    /\ bannedPairs \in SUBSET (Users \X Bots)
    /\ bannedUsers \in SUBSET Users
    /\ complaints = << >>
    /\ savedConversations = << >>
    /\ rejected = {}
    /\ refused = {}
    /\ invalid = {}
    /\ begins = 0
    /\ startEvaluationCalls = <<>>
    /\ finishConversationCalls = <<>>
    /\ Constructed
    /\ NoOutput

Init == Started /\ GuardOff

----------------------------------------------------------------------------
(* Matching *)

\* user.banned, as the object handed to the handlers has it.
UserBanned(user) == user \in bannedUsers

\* HumansGateway.on_begin, from the state check on: a banned user is told
\* so (on_conversation_failed), any other is passed to the orchestrator.
OnBegin(u) ==
    /\ userState[u] = "IDLE"
    /\ CanSpawn
    /\ IF UserBanned(u)
       THEN /\ tasks' = Spawn([NoTask EXCEPT !.op = "begin", !.pc = "failed_sent", !.peer = u])
            /\ UNCHANGED <<userState, begins, bgVars>>
       ELSE /\ begins < MaxConvs
            /\ userState' = [userState EXCEPT ![u] = "IN_LOBBY"]
            /\ begins' = begins + 1
            /\ tasks' = Spawn([NoTask EXCEPT !.op = "begin", !.pc = "ohid", !.peer = u])
    /\ UNCHANGED <<dmVars, gwConversations, dbVars, errVars, callVars, bgVars>>
    /\ Silent

\* A check that looks at the lobby alone.
InLobbyOnly(user) == user \in DOMAIN lobby

SimultaneousDialogs(user) ==
    user \in DOMAIN lobby \/ user \in ActiveDialogsPeers

\* DialogManager.on_human_initiated_dialog is called with a user object, as
\* the tests of the orchestrator call it: the coroutine is queued.
HumanInitiatedDialog(u) ==
    /\ begins < MaxBegins
    /\ CanSpawn
    /\ begins' = begins + 1
    /\ tasks' = Spawn([NoTask EXCEPT !.op = "begin", !.pc = "ohid", !.peer = u])
    /\ UNCHANGED <<dmVars, gwVars, dbVars, errVars, callVars, bgVars>>
    /\ Silent

\* DialogManager.on_human_initiated_dialog
OnHumanInitiatedDialog(t) ==
    /\ t \in At("ohid")
    /\ \/ /\ UserBanned(t.peer)
          /\ refused' = refused \cup {<<t.peer, "UserBannedError">>}
          /\ tasks' = Finish(t)
          /\ UNCHANGED lobby
       \/ /\ ~UserBanned(t.peer) /\ SimultaneousDialogs(t.peer)
          /\ refused' = refused \cup {<<t.peer, "SimultaneousDialogsError">>}
          /\ tasks' = Finish(t)
          /\ UNCHANGED lobby
       \/ /\ ~UserBanned(t.peer) /\ ~SimultaneousDialogs(t.peer)
          /\ lobby' = UnscheduleLobbyTimeout(lobby, t.peer)
          /\ tasks' = Resume(t, [t EXCEPT !.pc = "sdb_bots"])
          /\ UNCHANGED refused
       \/ /\ ~UserBanned(t.peer) /\ ~SimultaneousDialogs(t.peer)
          /\ DOMAIN lobby = {}
          /\ lobby' = Put(lobby, t.peer, "scheduled")
          /\ tasks' = Finish(t)
          /\ UNCHANGED refused
       \/ /\ ~UserBanned(t.peer) /\ ~SimultaneousDialogs(t.peer)
          /\ \E peer \in DOMAIN lobby :
                /\ lobby' = UnscheduleLobbyTimeout(lobby, peer)
                /\ tasks' = Resume(t, [t EXCEPT !.pc = "inst_reg", !.other = peer])
          /\ UNCHANGED refused
    /\ UNCHANGED <<activeDialogs, conversations, evaluations, timerVars,
                   gwVars, dbVars, rejected, invalid, begins, bgVars, callVars>> /\ Silent

\* The scheduler runs a lobby job: the job leaves the store and its
\* coroutine, _start_dialog_with_bot(user), is queued on the loop.
LobbyTimeout(u) ==
    /\ u \in DOMAIN lobby
    /\ lobby[u] = "scheduled"
    /\ CanSpawn
    /\ lobby' = [lobby EXCEPT ![u] = "fired"]
    /\ tasks' = Spawn([NoTask EXCEPT !.op = "lobby_timeout", !.pc = "sdb", !.peer = u])
    /\ UNCHANGED <<activeDialogs, conversations, evaluations, timerVars,
                   gwVars, dbVars, errVars, begins, bgVars, callVars>> /\ Silent

\* DialogManager._start_dialog_with_bot, up to the first executor call.
StartDialogWithBot(t) ==
    /\ t \in At("sdb")
    /\ lobby' = UnscheduleLobbyTimeout(lobby, t.peer)
    /\ tasks' = Resume(t, [t EXCEPT !.pc = "sdb_bots"])
    /\ UNCHANGED <<activeDialogs, conversations, evaluations, timerVars,
                   gwVars, dbVars, errVars, begins, bgVars, callVars>> /\ Silent

\* DialogManager._start_dialog_with_bot, after the bots were counted: with no
\* bot the gateway is told PEER_NOT_FOUND, else a bot is drawn.
BotsFound(t) ==
    /\ t \in At("sdb_bots")
    /\ \/ /\ bots = {}
          /\ tasks' = Resume(t, [t EXCEPT !.pc = "failed_sent"])
       \/ \E bot \in bots :
             tasks' = Resume(t, [t EXCEPT !.pc = "sdb_pair", !.other = bot])
    /\ UNCHANGED <<dmVars, gwVars, dbVars, errVars, begins, bgVars, callVars>> /\ Silent

\* DialogManager._start_dialog_with_bot, after the BannedPair of the user and
\* the drawn bot was looked up: the loop draws again when there is one.
BannedPairChecked(t) ==
    /\ t \in At("sdb_pair")
    /\ IF <<t.peer, t.other>> \in bannedPairs
       THEN tasks' = Resume(t, [t EXCEPT !.pc = "sdb_bots", !.other = "none"])
       ELSE tasks' = Resume(t, [t EXCEPT !.pc = "inst_reg"])
    /\ UNCHANGED <<dmVars, gwVars, dbVars, errVars, begins, bgVars, callVars>> /\ Silent

\* HumansGateway.on_conversation_failed, after the message was sent.
ConversationFailed(t) ==
    /\ t \in At("failed_sent")
    /\ gwConversations' = Drop(gwConversations, t.peer)
    /\ userState' = [userState EXCEPT ![t.peer] = "IDLE"]
    /\ tasks' = Finish(t)
    /\ UNCHANGED <<dmVars, dbVars, errVars, begins, bgVars, callVars>> /\ Silent

----------------------------------------------------------------------------
(* Instantiation *)

\* A '/start' envelope numbered like the first message after it.
BotStartConversationWithIdOne(c, own_peer) ==
    /\ trigrams' = Put(trigrams, c, 0)
    /\ Enqueue(own_peer, c, 1, "/start")

\* BotsGateway.start_conversation, after the bot record was read: the storage
\* of the guard is made and the '/start' envelope is queued with id 0.
BotStartConversation(c, own_peer) ==
    /\ trigrams' = Put(trigrams, c, 0)
    /\ Enqueue(own_peer, c, 0, "/start")

\* HumansGateway.start_conversation, after the user record was read.
StartConversation(gc, us, user, c) ==
    [conv |-> Put(gc, user, c), state |-> [us EXCEPT ![user] = "IN_DIALOG"]]

\* DialogManager._instantiate_dialog, from the profiles to the lookup of the
\* stored conversations: conv_id is drawn; a draw that is a key of
\* _active_dialogs is redrawn at once, any other is looked up in the
\* database.
DrawConvId(t, conv_id) ==
    /\ t \in At("inst_reg")
    /\ conv_id \notin activeDialogs
    /\ tasks' = Resume(t, [t EXCEPT !.pc = "inst_lookup", !.conv = conv_id])
    /\ UNCHANGED <<dmVars, gwVars, dbVars, errVars, begins, bgVars, callVars>> /\ Silent

\* DialogManager._instantiate_dialog, once the lookup returned: a stored id
\* is redrawn, any other is registered.
InstantiateDialog(t) ==
    /\ t \in At("inst_lookup")
    /\ IF t.conv \in DOMAIN savedConversations
       THEN /\ tasks' = Resume(t, [t EXCEPT !.pc = "inst_reg", !.conv = 0])
            /\ UNCHANGED <<activeDialogs, conversations, callVars>>
       ELSE /\ \E nt \in {0, MaxTopics} :
                  conversations' = Put(conversations, t.conv, Conversation(t.peer, t.other, nt))
            /\ activeDialogs' = activeDialogs \cup {t.conv}
            /\ startEvaluationCalls' = Put(startEvaluationCalls, t.conv, 0)
            /\ finishConversationCalls' = Put(finishConversationCalls, t.conv, 0)
            /\ tasks' = Resume(t, [t EXCEPT !.pc = "inst_gw1"])
    /\ UNCHANGED <<lobby, evaluations, timerVars, gwVars, dbVars, errVars, begins, bgVars>> /\ Silent

\* start_conversation of the first participant (always a human) takes effect.
StartConversationFirst(t) ==
    /\ t \in At("inst_gw1")
    /\ LET r == StartConversation(gwConversations, userState, t.peer, t.conv)
       IN  gwConversations' = r.conv /\ userState' = r.state
    /\ tasks' = Resume(t, [t EXCEPT !.pc = "inst_gw2"])
    /\ UNCHANGED <<dmVars, dbVars, errVars, begins, bgVars, callVars>> /\ Silent

\* start_conversation of the second participant takes effect; for a bot it
\* returns without a further suspension and the inactivity timer is started.
StartConversationSecond(t) ==
    /\ t \in At("inst_gw2")
    /\ \/ /\ t.other \in Bots
          /\ BotStartConversation(t.conv, t.other)
          /\ ResetTimer(t.conv)
          /\ tasks' = Finish(t)
          /\ UNCHANGED gwVars
       \/ /\ t.other \in Users
          /\ LET r == StartConversation(gwConversations, userState, t.other, t.conv)
             IN  gwConversations' = r.conv /\ userState' = r.state
          /\ tasks' = Resume(t, [t EXCEPT !.pc = "inst_timer"])
          /\ UNCHANGED <<timerVars, botQueues, puts, trigrams>>
    /\ UNCHANGED <<lobby, activeDialogs, conversations, evaluations, dbVars, errVars, begins,
                   pollVars, replies, optVars, callVars>> /\ Silent

\* DialogManager._instantiate_dialog: the last line.
StartInactivityTimer(t) ==
    /\ t \in At("inst_timer")
    /\ ResetTimer(t.conv)
    /\ tasks' = Finish(t)
    /\ UNCHANGED <<lobby, activeDialogs, conversations, evaluations, gwVars, dbVars, errVars, begins, bgVars,
                   callVars>> /\ Silent

----------------------------------------------------------------------------
(* Termination of the dialog phase *)

GatewayForPeer(peer) == IF peer \in Users THEN "humans" ELSE "bots"

\* DialogManager._initiate_final_evaluation, up to the first executor call.
InitiateFinalEvaluation(c) ==
    /\ ResetTimer(c)
    /\ evaluations' = Put(evaluations, c, <<NONE, NONE>>)

\* DialogManager.trigger_dialog_end, after the validation.
TriggerDialogEnd(c, peer) ==
    /\ conversations' = [conversations EXCEPT ![c].triggered_dialog_end =
           [i \in {1, 2} |-> @[i] \/ conversations[c].participants[i] = peer]]
    /\ InitiateFinalEvaluation(c)

\* len(other_peer_profile_options) once _initiate_final_evaluation has set
\* them: the true profile and a random one, shuffled.  A profile is known
\* here by its place in this list.
ProfileOptions == 2

\* DialogManager._initiate_final_evaluation, after the profiles were read:
\* each participant gets the profile options, start_evaluation is called for
\* each and the calls gathered.
StartEvaluations(t) ==
    /\ t \in At("ife_db")
    /\ startEvaluationCalls' =
           [startEvaluationCalls EXCEPT ![t.conv] = Bump(@)]
    /\ tasks' = Resume(t, [t EXCEPT !.pc = "ife_gw", !.pend = {1, 2}])
    /\ conversations' = [conversations EXCEPT
           ![t.conv].other_peer_profile_options = <<ProfileOptions, ProfileOptions>>]
    /\ UNCHANGED <<lobby, activeDialogs, evaluations, timerVars, gwVars, dbVars,
                   errVars, begins, bgVars, finishConversationCalls>> /\ Silent

\* What resumes a handler when the gathered start_evaluation calls are done:
\* BotsGateway.on_message_received goes on to evaluate_dialog after '/end'.
AfterEvaluationStarted(t) ==
    IF t.op = "bot_end" THEN [t EXCEPT !.pc = "bot_eval", !.pend = {}] ELSE NoTask

\* What the handler that started the evaluation raises when the gather is
\* done: the KeyError of a start_evaluation, the error of the trigram guard
\* that triggered the end, or nothing.
Raised(t) ==
    IF t.op = "orphan" THEN "KeyError"
    ELSE IF t.op = "bot_leak" THEN "ProfileTrigramDetectedInMessageError"
    ELSE ""

\* gateway.start_evaluation of participant i takes effect.  The humans'
\* gateway reads self._conversations[user]: a KeyError ends the gather, and
\* the handler with it, while the other call goes on.
StartEvaluation(t, i) ==
    /\ t \in At("ife_gw")
    /\ i \in t.pend
    /\ LET peer == conversations[t.conv].participants[i]
           failed == peer \in Users /\ peer \notin DOMAIN gwConversations
           left == [t EXCEPT !.pend = @ \ {i},
                             !.op = IF failed THEN "orphan" ELSE @]
       IN  /\ userState' = IF peer \in Users /\ ~failed
                           THEN [userState EXCEPT ![peer] = "EVALUATING"]
                           ELSE userState
           /\ IF peer \in Bots
              THEN Enqueue(peer, t.conv, EvaluationMessageId, "/end")
              ELSE UNCHANGED <<botQueues, puts>>
           /\ tasks' = IF left.pend # {} THEN Resume(t, left)
                       ELSE IF AfterEvaluationStarted(left) = NoTask THEN Finish(t)
                       ELSE Resume(t, AfterEvaluationStarted(left))
           /\ IF left.pend = {} /\ AfterEvaluationStarted(left) = NoTask
              THEN Answered(left, Raised(left))
              ELSE UNCHANGED replies
    /\ UNCHANGED <<dmVars, gwConversations, dbVars, errVars, begins, pollVars, trigrams,
                   optVars, callVars>> /\ Silent

----------------------------------------------------------------------------
(* Messages *)

\* The validation alone, without the check of the evaluation phase.
ValidationOnly(c, sender) == ~ValidConversationAndPeer(c, sender)

\* The checks of DialogManager.on_message_received that raise.
MessageRejected(c, sender) ==
    ~ValidConversationAndPeer(c, sender) \/ c \in DOMAIN evaluations

\* DialogManager.on_message_received, up to the gateway's send_message.
OnMessageReceived(c, sender, time) ==
    \/ /\ ~ValidConversationAndPeer(c, sender)
       /\ Invalid(c, sender)
       /\ UNCHANGED <<conversations, tasks, rejected>>
    \/ /\ ValidConversationAndPeer(c, sender)
       /\ MessageRejected(c, sender)
       /\ rejected' = rejected \cup {c}
       /\ UNCHANGED <<conversations, tasks, invalid>>
    \/ /\ ~MessageRejected(c, sender)
       /\ Len(conversations[c].messages) < MaxMsgs
       /\ LET msg == Message(conversations[c], sender, FALSE, time)
          IN  /\ conversations' =
                     [conversations EXCEPT ![c].messages = Append(@, msg)]
              /\ tasks' = Spawn([NoTask EXCEPT !.op = "message", !.pc = "omr_sent",
                                               !.conv = c, !.peer = sender,
                                               !.msg_id = msg.msg_id])
       /\ UNCHANGED errVars
    /\ UNCHANGED <<lobby, activeDialogs, evaluations, timerVars,
                   gwVars, dbVars, refused, begins, mailVars, callVars>> /\ Silent

\* HumansGateway.on_message_received, from the state check on.
OnUserMessage(u) ==
    /\ userState[u] = "IN_DIALOG"
    /\ u \in DOMAIN gwConversations
    /\ CanSpawn
    /\ OnMessageReceived(gwConversations[u], u, Now)
    /\ UNCHANGED <<trigrams, replies>>

\* The chat_id a bot sends is one it got from the '/start' update that
\* BotsGateway.start_conversation queued for it.
BotKnows(b, c) ==
    /\ conversations[c].participants[2] = b
    /\ \A t \in BagToSet(tasks) : t.conv = c => t.pc \notin {"inst_gw1", "inst_gw2"}

\* The peer a message of sender is forwarded to.
Receiver(conv, sender) ==
    IF conv.participants[1] # sender THEN conv.participants[1] ELSE conv.participants[2]

\* A cap that is reached one message later.
LengthThresholdExceeded(conv) == Len(conv.messages) > LengthThreshold

LengthThresholdReached(conv) == Len(conv.messages) >= LengthThreshold

\* DialogManager.on_message_received, after send_message returned.
MessageSent(t) ==
    /\ t \in At("omr_sent")
    /\ IF Receiver(conversations[t.conv], t.peer) \in Bots
       THEN Enqueue(Receiver(conversations[t.conv], t.peer), t.conv, t.msg_id, "text")
       ELSE UNCHANGED <<botQueues, puts>>
    /\ IF LengthThresholdReached(conversations[t.conv])
       THEN IF ValidConversationAndPeer(t.conv, t.peer)
            THEN /\ TriggerDialogEnd(t.conv, t.peer)
                 /\ tasks' = Resume(t, [t EXCEPT !.pc = "ife_db"])
                 /\ UNCHANGED replies
            ELSE /\ tasks' = Finish(t)
                 /\ Answered(t, "ValueError")
                 /\ UNCHANGED <<conversations, evaluations, timerVars>>
       ELSE /\ ResetTimer(t.conv)
            /\ tasks' = Finish(t)
            /\ Answered(t, "")
            /\ UNCHANGED <<conversations, evaluations>>
    /\ UNCHANGED <<lobby, activeDialogs, gwVars, dbVars, errVars, begins, pollVars, trigrams,
                   optVars, callVars>> /\ Silent

\* Conversation.next_topic: 0 when the index advanced, -1 when the profiles
\* define no further topic.  messages_to_switch_topic is never set, so the
\* counter messages_to_switch_topic_left is always 0.
NextTopic(conv) ==
    IF conv.active_topic_index + 1 < conv.topics_n
    THEN [index |-> conv.active_topic_index + 1, ret |-> 0]
    ELSE [index |-> conv.active_topic_index, ret |-> -1]

\* Python's truth value of what next_topic returned.
Truthy(ret) == ret # 0

\* What the loop over the participants in switch_to_next_topic raises:
\* topics[index] of a profile without that topic is an IndexError, and
\* BotsGateway has no on_topic_switched.
TopicSwitchedRaises(conv) ==
    IF conv.active_topic_index >= conv.topics_n THEN "IndexError"
    ELSE IF \E i \in {1, 2} : conv.participants[i] \in Bots THEN "AttributeError"
    ELSE ""

\* The users HumansGateway.on_topic_switched has told the topic when
\* switch_to_next_topic(c, peer) ends: the participants before the one at
\* which the loop raises.
TopicSwitched(c, peer) ==
    IF ~ValidConversationAndPeer(c, peer) THEN {}
    ELSE LET conv == conversations[c]
         IN  IF ~Truthy(NextTopic(conv).ret) \/ TopicSwitchedRaises(conv) = "IndexError"
             THEN {}
             ELSE {<<conv.participants[i], "topic_switched">> :
                     i \in {k \in {1, 2} : \A j \in 1..k : conv.participants[j] \in Users}}

\* DialogManager.switch_to_next_topic: the message is appended and the
\* gateways are told when next_topic() is true, and nothing is returned.
SwitchToNextTopic(c, peer) ==
    /\ \/ /\ ~ValidConversationAndPeer(c, peer)
          /\ Invalid(c, peer)
          /\ returned' = "ValueError"
          /\ UNCHANGED conversations
       \/ /\ ValidConversationAndPeer(c, peer)
          /\ LET conv == conversations[c]
                 nt == NextTopic(conv)
                 switched == [conv EXCEPT !.active_topic_index = nt.index]
             IN  IF Truthy(nt.ret)
                 THEN /\ Len(conv.messages) < MaxMsgs
                      /\ conversations' = [conversations EXCEPT ![c] =
                             [switched EXCEPT !.messages =
                                 Append(@, Message(switched, peer, TRUE, Now))]]
                      /\ returned' = IF TopicSwitchedRaises(conv) = "" THEN "None"
                                     ELSE TopicSwitchedRaises(conv)
                 ELSE /\ conversations' = [conversations EXCEPT ![c] = switched]
                      /\ returned' = "None"
          /\ UNCHANGED invalid
    /\ UNCHANGED <<lobby, activeDialogs, evaluations, timerVars, tasks,
                   gwVars, dbVars, rejected, refused, begins, bgVars, callVars>>

\* Python's 'not result' of what an orchestrator call returned.
Not(result) == result \in {"None", "False"}

\* HumansGateway.on_topic_switch, from the state check on, with show_topics
\* set: unless the call raises, the user is told that switching is not
\* available when 'not' of the result is true.
OnTopicSwitch(u) ==
    /\ userState[u] = "IN_DIALOG"
    /\ u \in DOMAIN gwConversations
    /\ SwitchToNextTopic(gwConversations[u], u)
    /\ sent' = TopicSwitched(gwConversations[u], u) \cup
                  (IF Not(returned')
                   THEN {<<u, "switch_topic_not_available">>}
                   ELSE {})

\* DialogManager.trigger_dialog_end, up to the first executor call of
\* _initiate_final_evaluation; op names the caller that goes on afterwards.
TriggerDialogEndCalled(c, peer, op) ==
    /\ CanSpawn
    /\ \/ /\ ~ValidConversationAndPeer(c, peer)
          /\ Invalid(c, peer)
          /\ UNCHANGED <<conversations, evaluations, timerVars, tasks>>
       \/ /\ ValidConversationAndPeer(c, peer)
          /\ TriggerDialogEnd(c, peer)
          /\ tasks' = Spawn([NoTask EXCEPT !.op = op, !.pc = "ife_db",
                                           !.conv = c, !.peer = peer])
          /\ UNCHANGED invalid
    /\ UNCHANGED <<lobby, activeDialogs, gwVars, dbVars, rejected, refused, begins, mailVars, callVars>> /\ Silent

\* HumansGateway.on_end_dialog, from the state check on.
OnEndDialog(u) ==
    /\ userState[u] = "IN_DIALOG"
    /\ u \in DOMAIN gwConversations
    /\ TriggerDialogEndCalled(gwConversations[u], u, "end")
    /\ UNCHANGED <<trigrams, replies>>

\* BotsGateway._validate_trigrams finds a storage for the chat.
HasStorage(c) == c \in DOMAIN trigrams

\* A guard that never ends the dialog.
StreakNeverReached(n) == FALSE

\* storage.bad_messages_in_a_row >= self._n_bad_messages_threshold
StreakReached(n) == n >= nBadMessagesThreshold

\* The handler was called by a bot and raised before it suspended.
Refused(b, c, error) == replies' = [replies EXCEPT ![b] = Reply(FALSE, c, 0, error)]

\* BotsGateway.on_message_received with a chat message, from the test of
\* the text on: the trigram guard when it is configured, then the
\* orchestrator.  leak is the outcome of storage.is_message_ok(text).
BotMessage(b, c, leak) ==
    IF nBadMessagesThreshold > 0 /\ ~HasStorage(c)
    THEN /\ Refused(b, c, "KeyError")
         /\ UNCHANGED <<dmVars, tasks, gwVars, dbVars, errVars, begins, mailVars, trigrams,
                         callVars>> /\ Silent
    ELSE IF nBadMessagesThreshold > 0 /\ leak
    THEN /\ trigrams[c] < MaxStreak
         /\ trigrams' = [trigrams EXCEPT ![c] = @ + 1]
         /\ IF StreakReached(trigrams[c] + 1)
            THEN /\ TriggerDialogEndCalled(c, b, "bot_leak")
                 /\ IF ValidConversationAndPeer(c, b)
                    THEN UNCHANGED replies
                    ELSE Refused(b, c, "ValueError")
            ELSE /\ Refused(b, c, "ProfileTrigramDetectedInMessageError")
                 /\ UNCHANGED <<dmVars, tasks, gwVars, dbVars, errVars, begins, mailVars,
                                 callVars>> /\ Silent
    ELSE /\ trigrams' = IF nBadMessagesThreshold > 0
                        THEN [trigrams EXCEPT ![c] = 0]
                        ELSE trigrams
         /\ OnMessageReceived(c, b, Now)
         /\ IF MessageRejected(c, b)
            THEN Refused(b, c, "ValueError")
            ELSE UNCHANGED replies

\* A bot's sendMessage with a text other than '/end'.
OnBotMessage(b, c) ==
    /\ BotKnows(b, c)
    /\ CanSpawn
    /\ \E leak \in BOOLEAN : BotMessage(b, c, leak)

\* BotsGateway.on_message_received with '/end'.
OnBotEnd(b, c) ==
    /\ BotKnows(b, c)
    /\ TriggerDialogEndCalled(c, b, "bot_end")
    /\ IF ValidConversationAndPeer(c, b)
       THEN UNCHANGED replies
       ELSE Refused(b, c, "ValueError")
    /\ UNCHANGED trigrams

----------------------------------------------------------------------------
(* Evaluation and cleanup *)

\* The check of DialogManager._handle_evaluation_state.
Completed(c, evs) ==
    \A i \in {1, 2} :
        conversations[c].participants[i] \in Bots \/ evs[c][i] = COMPLETE

\* The bots' gateway alone.
BotsGatewayOnly(c) == {"bots"}

AllGateways(c) == {GatewayForPeer(conversations[c].participants[i]) : i \in {1, 2}}

\* DialogManager._cleanup_conversation, up to the gather: finish_conversation
\* is called once on each gateway in AllGateways(c).
FinishConversationCalled(c) ==
    finishConversationCalls' = [finishConversationCalls EXCEPT ![c] = Bump(@)]

\* The flags dialog evaluation sets (DialogManager.evaluate_dialog).
ScoreFlags == IF GuessProfile THEN SCORE_GIVEN ELSE COMPLETE

SetFlags(evs, c, idx, flags) == [evs EXCEPT ![c][idx] = @ \cup flags]

\* DialogManager.evaluate_dialog / select_other_peer_profile of a human,
\* after the validation: the flags are set and completion is examined.
Submit(c, evaluator, flags) ==
    LET evs == SetFlags(evaluations, c, PeerIdx(conversations[c], evaluator), flags)
    IN  /\ evaluations' = evs
        /\ IF Completed(c, evs)
           THEN /\ FinishConversationCalled(c)
                /\ tasks' = Spawn([NoTask EXCEPT !.op = "completion", !.pc = "cln_fin",
                                                 !.conv = c])
           ELSE UNCHANGED <<tasks, finishConversationCalls>>

EvaluationOpen(c, evaluator) ==
    ValidConversationAndPeer(c, evaluator) /\ c \in DOMAIN evaluations

\* A check of the score that lets every score pass.
ScoreNeverOutOfRange(given, score) == given /\ FALSE

\* 'Score should be within a range'.
ScoreOutOfRange(given, score) ==
    given /\ (score > DialogEvalMax \/ score < DialogEvalMin)

\* 'Selected profile was not an option'.
NotAnOption(conv, evaluator, given, profile_idx) ==
    given /\ (profile_idx < 0 \/
              profile_idx >= conv.other_peer_profile_options[PeerIdx(conv, evaluator)])

\* The field of the evaluator's ConversationPeer after an optional value
\* was submitted.
Stored(conv, field, evaluator, given, value) ==
    IF given THEN [field EXCEPT ![PeerIdx(conv, evaluator)] = Some(value)] ELSE field

\* DialogManager.evaluate_dialog: the validation, the check of the phase
\* ('not finished yet'), the check of the score, the score and the flags,
\* and the cleanup up to its first suspension.
EvaluateDialog(c, evaluator, given, score) ==
    /\ CanSpawn
    /\ IF ~ValidConversationAndPeer(c, evaluator)
       THEN /\ Invalid(c, evaluator)
            /\ returned' = "ValueError"
            /\ UNCHANGED <<conversations, evaluations, tasks, finishConversationCalls>>
       ELSE IF c \notin DOMAIN evaluations \/ ScoreOutOfRange(given, score)
            THEN /\ returned' = "ValueError"
                 /\ UNCHANGED <<conversations, evaluations, tasks, finishConversationCalls,
                                invalid>>
            ELSE /\ conversations' = [conversations EXCEPT ![c].dialog_evaluation_score =
                        Stored(conversations[c], @, evaluator, given, score)]
                 /\ Submit(c, evaluator, ScoreFlags)
                 /\ returned' = ""
                 /\ UNCHANGED invalid
    /\ sent' = {}
    /\ UNCHANGED <<lobby, activeDialogs, timerVars,
                   dbVars, rejected, refused, begins, bgVars, startEvaluationCalls>>

\* DialogManager.select_other_peer_profile: as evaluate_dialog, with the
\* check of the index against the evaluator's options.
SelectOtherPeerProfile(c, evaluator, given, profile_idx) ==
    /\ CanSpawn
    /\ IF ~ValidConversationAndPeer(c, evaluator)
       THEN /\ Invalid(c, evaluator)
            /\ returned' = "ValueError"
            /\ UNCHANGED <<conversations, evaluations, tasks, finishConversationCalls>>
       ELSE IF \/ c \notin DOMAIN evaluations
               \/ NotAnOption(conversations[c], evaluator, given, profile_idx)
            THEN /\ returned' = "ValueError"
                 /\ UNCHANGED <<conversations, evaluations, tasks, finishConversationCalls,
                                invalid>>
            ELSE /\ conversations' = [conversations EXCEPT ![c].other_peer_profile_selected =
                        Stored(conversations[c], @, evaluator, given, profile_idx)]
                 /\ Submit(c, evaluator, PROFILE_SELECTED)
                 /\ returned' = ""
                 /\ UNCHANGED invalid
    /\ sent' = {}
    /\ UNCHANGED <<lobby, activeDialogs, timerVars,
                   dbVars, rejected, refused, begins, bgVars, startEvaluationCalls>>

\* HumansGateway.on_evaluate_dialog, from the state check on.
OnEvaluateDialog(u, given, score) ==
    /\ userState[u] = "EVALUATING"
    /\ u \in DOMAIN gwConversations
    /\ EvaluateDialog(gwConversations[u], u, given, score)
    /\ UNCHANGED gwVars

\* HumansGateway.on_other_peer_profile_selected, from the state check on.
OnOtherPeerProfileSelected(u, profile_idx) ==
    /\ userState[u] \in {"EVALUATING", "WAITING_FOR_PARTNER_EVALUATION"}
    /\ u \in DOMAIN gwConversations
    /\ userState' = [userState EXCEPT ![u] = "WAITING_FOR_PARTNER_EVALUATION"]
    /\ SelectOtherPeerProfile(gwConversations[u], u, TRUE, profile_idx)
    /\ UNCHANGED gwConversations

\* other_peer_profile_selected_parts after sentence idx (from 0) was set:
\* the list is padded with None (FALSE) up to the index.
SetPart(parts, idx) ==
    [k \in 1..(IF idx + 1 > Len(parts) THEN idx + 1 ELSE Len(parts)) |->
        IF k = idx + 1 THEN TRUE ELSE IF k <= Len(parts) THEN parts[k] ELSE FALSE]

\* DialogManager.select_other_peer_profile_sentence; without an index
\* (given = FALSE) the sentence goes to the end of the list.
SelectOtherPeerProfileSentence(c, evaluator, given, sentence_idx) ==
    /\ CanSpawn
    /\ IF ~ValidConversationAndPeer(c, evaluator)
       THEN /\ Invalid(c, evaluator)
            /\ returned' = "ValueError"
            /\ UNCHANGED <<conversations, evaluations, tasks, finishConversationCalls>>
       ELSE IF c \notin DOMAIN evaluations
            THEN /\ returned' = "ValueError"
                 /\ UNCHANGED <<conversations, evaluations, tasks, finishConversationCalls,
                                invalid>>
            ELSE LET peer_idx == PeerIdx(conversations[c], evaluator)
                     old == conversations[c].selected_parts[peer_idx]
                     idx == IF given THEN sentence_idx ELSE Len(old)
                     parts == SetPart(old, idx)
                     selected == {k \in 1..Len(parts) : parts[k]}
                 IN  /\ given \/ idx < MaxParts
                     /\ conversations' =
                            [conversations EXCEPT ![c].selected_parts[peer_idx] = parts]
                     /\ IF Cardinality(selected) = ProfileSentences
                        THEN Submit(c, evaluator, PROFILE_SELECTED)
                        ELSE UNCHANGED <<evaluations, tasks, finishConversationCalls>>
                     /\ returned' = ""
                     /\ UNCHANGED invalid
    /\ UNCHANGED <<lobby, activeDialogs, timerVars, gwVars,
                   dbVars, rejected, refused, begins, bgVars, startEvaluationCalls>>
    /\ sent' = {}

\* A search that, without an id, takes the last message whoever sent it.
TargetAmongAll(conv, evaluator, given, id) ==
    LET msgs == conv.messages
        all == 1..Len(msgs)
        last == CHOOSE i \in all : \A j \in all : j <= i
        msg_id == IF given THEN id
                  ELSE IF all = {} THEN 0 - 1 ELSE msgs[last].msg_id
        found == {i \in 1..Len(msgs) : msgs[i].msg_id = msg_id}
    IN  IF found = {} THEN 0 ELSE CHOOSE i \in found : \A j \in found : i <= j

\* The message on_message_evaluated looks for: the one with the id given
\* or, without an id, with the id of the last message of somebody else
\* (-1 when there is none); 0 when no message has that id, else the place of
\* the first that has.
Target(conv, evaluator, given, id) ==
    LET msgs == conv.messages
        others == {i \in 1..Len(msgs) : msgs[i].sender # evaluator}
        last == CHOOSE i \in others : \A j \in others : j <= i
        msg_id == IF given THEN id
                  ELSE IF others = {} THEN 0 - 1 ELSE msgs[last].msg_id
        found == {i \in 1..Len(msgs) : msgs[i].msg_id = msg_id}
    IN  IF found = {} THEN 0 ELSE CHOOSE i \in found : \A j \in found : i <= j

\* DialogManager.on_message_evaluated.
OnMessageEvaluated(c, evaluator, score, given, id) ==
    /\ IF ~ValidConversationAndPeer(c, evaluator)
       THEN /\ Invalid(c, evaluator)
            /\ returned' = "ValueError"
            /\ UNCHANGED conversations
       ELSE LET target == Target(conversations[c], evaluator, given, id)
            IN  /\ IF \/ score > 1 \/ score < 0
                      \/ target = 0
                      \/ conversations[c].messages[target].sender = evaluator
                   THEN /\ returned' = "ValueError"
                        /\ UNCHANGED conversations
                   ELSE /\ conversations' = [conversations EXCEPT
                               ![c].messages[target].evaluation_score = Some(score)]
                        /\ returned' = ""
                /\ UNCHANGED invalid
    /\ sent' = {}
    /\ UNCHANGED <<lobby, activeDialogs, evaluations, timerVars, tasks,
                   gwVars, dbVars, rejected, refused, begins, bgVars, callVars>>

\* Conversation.clean raises ValidationError for a conversation without
\* messages.
Empty(conv) == Len(conv.messages) = 0

\* The document Conversation.clean leaves to be stored: start_time is the
\* min and end_time the max of the times of the messages.
Cleaned(conv) ==
    LET times == {conv.messages[i].time : i \in 1..Len(conv.messages)}
    IN  [messages |-> conv.messages,
         start_time |-> CHOOSE t \in times : \A u \in times : t <= u,
         end_time |-> CHOOSE t \in times : \A u \in times : u <= t]

\* conversation.save() raises ValidationError: Conversation.clean for a
\* conversation without messages, the validation of the fields for a peer
\* whose other_peer_profile_selected_parts, a list of strings, was padded
\* with None.
SaveRaisesValidationError(conv) ==
    \/ Empty(conv)
    \/ \E i \in DOMAIN conv.selected_parts :
           \E k \in 1..Len(conv.selected_parts[i]) : ~conv.selected_parts[i][k]

\* Conversation.objects after conversation.save() went through.
Save(c) == Put(savedConversations, c, Cleaned(conversations[c]))

\* DialogManager.complain, up to the executor call: False for a
\* conversation without messages, else the complaint is built.
Complain(c, complainer) ==
    /\ IF ~ValidConversationAndPeer(c, complainer)
       THEN /\ Invalid(c, complainer)
            /\ returned' = "ValueError"
            /\ UNCHANGED tasks
       ELSE IF Empty(conversations[c])
            THEN /\ returned' = "False"
                 /\ UNCHANGED <<tasks, invalid>>
            ELSE /\ CanSpawn
                 /\ Len(complaints) < MaxComplaints
                 /\ tasks' = Spawn([NoTask EXCEPT
                        !.op = "complain", !.pc = "cmp_save", !.conv = c,
                        !.peer = complainer,
                        !.other = Receiver(conversations[c], complainer)])
                 /\ returned' = ""
                 /\ UNCHANGED invalid
    /\ sent' = {}
    /\ UNCHANGED <<dmVars, gwVars, dbVars, rejected, refused, begins, bgVars, callVars>>

\* save_complaint_and_dialog has run in the executor: the conversation and
\* the complaint are stored and complain returns True, unless the save of
\* the conversation raised.
ComplaintSaved(t) ==
    /\ t \in At("cmp_save")
    /\ Len(complaints) < MaxComplaints
    /\ IF SaveRaisesValidationError(conversations[t.conv])
       THEN /\ returned' = "ValidationError"
            /\ UNCHANGED <<savedConversations, complaints>>
       ELSE /\ savedConversations' = Save(t.conv)
            /\ complaints' = Append(complaints,
                   [complainer |-> t.peer, complain_to |-> t.other,
                    conversation |-> t.conv])
            /\ returned' = "True"
    /\ tasks' = Finish(t)
    /\ sent' = {}
    /\ UNCHANGED <<dmVars, gwVars, bots, bannedPairs, bannedUsers, errVars, begins, bgVars,
                   callVars>>

\* BotsGateway.on_message_received after '/end': evaluate_dialog with the
\* score of the message's 'evaluation' and, when that neither raised nor
\* cleaned the conversation up, select_other_peer_profile with its
\* 'profile_idx'.
BotEvaluation(t, given, score, idx_given, profile_idx) ==
    /\ t \in At("bot_eval")
    /\ IF EvaluationOpen(t.conv, t.peer)
       THEN /\ LET conv == conversations[t.conv]
                   idx == PeerIdx(conv, t.peer)
                   scored == SetFlags(evaluations, t.conv, idx, ScoreFlags)
                   selected == SetFlags(scored, t.conv, idx, PROFILE_SELECTED)
                   with_score == [conversations EXCEPT ![t.conv].dialog_evaluation_score =
                                     Stored(conv, @, t.peer, given, score)]
                   with_profile == [with_score EXCEPT ![t.conv].other_peer_profile_selected =
                                       Stored(conv, @, t.peer, idx_given, profile_idx)]
               IN  IF ScoreOutOfRange(given, score)
                   THEN /\ tasks' = Finish(t)
                        /\ Answered(t, "ValueError")
                        /\ UNCHANGED <<conversations, evaluations, finishConversationCalls>>
                   ELSE IF Completed(t.conv, scored)
                   THEN /\ conversations' = with_score
                        /\ evaluations' = scored
                        /\ FinishConversationCalled(t.conv)
                        /\ tasks' = Resume(t, [t EXCEPT !.pc = "cln_fin", !.op = "bot_scored"])
                        /\ UNCHANGED replies
                   ELSE IF NotAnOption(conv, t.peer, idx_given, profile_idx)
                   THEN /\ conversations' = with_score
                        /\ evaluations' = scored
                        /\ tasks' = Finish(t)
                        /\ Answered(t, "ValueError")
                        /\ UNCHANGED finishConversationCalls
                   ELSE /\ conversations' = with_profile
                        /\ evaluations' = selected
                        /\ IF Completed(t.conv, selected)
                           THEN /\ FinishConversationCalled(t.conv)
                                /\ tasks' = Resume(t, [t EXCEPT !.pc = "cln_fin"])
                                /\ UNCHANGED replies
                           ELSE /\ tasks' = Finish(t)
                                /\ Answered(t, "")
                                /\ UNCHANGED finishConversationCalls
            /\ UNCHANGED invalid
       ELSE /\ tasks' = Finish(t)
            /\ Answered(t, "ValueError")
            /\ IF ValidConversationAndPeer(t.conv, t.peer)
               THEN UNCHANGED invalid
               ELSE Invalid(t.conv, t.peer)
            /\ UNCHANGED <<conversations, evaluations, finishConversationCalls>>
    /\ UNCHANGED <<lobby, activeDialogs, timerVars, gwVars,
                   dbVars, rejected, refused, begins, mailVars, trigrams,
                   startEvaluationCalls>> /\ Silent

\* gateway.finish_conversation takes effect: the humans' gateway forgets
\* every user whose record holds the conversation, the bots' gateway deletes
\* the storage of the trigram guard (a KeyError is swallowed by the gather).
FinishConversation(t) ==
    /\ t \in At("cln_fin")
    /\ LET users == IF "humans" \in AllGateways(t.conv)
                    THEN {u \in DOMAIN gwConversations : gwConversations[u] = t.conv}
                    ELSE {}
       IN  /\ gwConversations' = [u \in DOMAIN gwConversations \ users |-> gwConversations[u]]
           /\ userState' = [u \in Users |-> IF u \in users THEN "IDLE" ELSE userState[u]]
    /\ trigrams' = IF "bots" \in AllGateways(t.conv) THEN Drop(trigrams, t.conv) ELSE trigrams
    /\ tasks' = Resume(t, [t EXCEPT !.pc = "cln_del"])
    /\ UNCHANGED <<dmVars, dbVars, errVars, begins, mailVars, replies, callVars>> /\ Silent

\* DialogManager._cleanup_conversation, from the save on: every
\* ValidationError of the save is caught, the del of a
\* conversation that is gone raises KeyError.  A bot's '/end' whose
\* evaluate_dialog did the cleanup goes on to select_other_peer_profile,
\* which finds no active conversation.
CleanupConversation(t) ==
    /\ t \in At("cln_del")
    /\ UnscheduleTimer(t.conv)
    /\ IF t.conv \in activeDialogs
       THEN /\ activeDialogs' = activeDialogs \ {t.conv}
            /\ evaluations' = Drop(evaluations, t.conv)
       ELSE UNCHANGED <<activeDialogs, evaluations>>
    /\ savedConversations' = IF SaveRaisesValidationError(conversations[t.conv])
                              THEN savedConversations
                              ELSE Save(t.conv)
    /\ tasks' = Finish(t)
    /\ Answered(t, IF t.conv \notin activeDialogs THEN "KeyError"
                   ELSE IF t.op = "bot_scored" THEN "ValueError"
                   ELSE "")
    /\ UNCHANGED <<lobby, conversations, gwVars, bots, bannedPairs, bannedUsers, complaints,
                   errVars, begins, mailVars, trigrams, callVars>> /\ Silent

----------------------------------------------------------------------------
(* Inactivity *)

\* The scheduler runs an inactivity job: the job leaves the store and its
\* coroutine, _handle_conversation_timeout(conv_id), is queued on the loop.
InactivityTimeout(c) ==
    /\ c \in DOMAIN dialogTimeoutHandlers
    /\ dialogTimeoutHandlers[c] = "scheduled"
    /\ CanSpawn
    /\ dialogTimeoutHandlers' = [dialogTimeoutHandlers EXCEPT ![c] = "fired"]
    /\ schedulerJobs' = [schedulerJobs EXCEPT ![c] = @ - 1]
    /\ tasks' = Spawn([NoTask EXCEPT !.op = "timeout", !.pc = "hct", !.conv = c])
    /\ UNCHANGED <<lobby, activeDialogs, conversations, evaluations, gwVars, dbVars, errVars, begins, bgVars,
                   callVars>> /\ Silent

\* A callback that never takes the cleanup branch.
TimeoutNeverCleansUp(c) == FALSE

\* The branch DialogManager._handle_conversation_timeout takes.
TimeoutCleansUp(c) == c \in DOMAIN evaluations

\* DialogManager._handle_conversation_timeout
HandleConversationTimeout(t) ==
    /\ t \in At("hct")
    /\ IF TimeoutCleansUp(t.conv)
       THEN /\ FinishConversationCalled(t.conv)
            /\ tasks' = Resume(t, [t EXCEPT !.pc = "cln_fin"])
            /\ UNCHANGED <<evaluations, timerVars>>
       ELSE IF t.conv \in activeDialogs
            THEN /\ InitiateFinalEvaluation(t.conv)
                 /\ tasks' = Resume(t, [t EXCEPT !.pc = "ife_db"])
                 /\ UNCHANGED finishConversationCalls
            ELSE /\ tasks' = Finish(t)
                 /\ UNCHANGED <<evaluations, timerVars, finishConversationCalls>>
    /\ UNCHANGED <<lobby, activeDialogs, conversations, gwVars, dbVars, errVars, begins, bgVars,
                   startEvaluationCalls>> /\ Silent

----------------------------------------------------------------------------
(* The state guard of the humans' gateway *)

\* HumansGateway._validate_user_state
ValidateUserState(u, ok_states) == userState[u] \in ok_states

\* A refusal that also puts the user back in IDLE.
RefusalToIdle(u, error_message) ==
    /\ sent' = IF error_message = "" THEN {} ELSE {<<u, error_message>>}
    /\ returned' = ""
    /\ userState' = [userState EXCEPT ![u] = "IDLE"]
    /\ UNCHANGED <<dmVars, tasks, gwConversations, dbVars, errVars, begins, bgVars,
                   callVars>>

\* A handler whose _validate_user_state failed: the user is sent
\* error_message, unless it is empty, and the handler returns.
Refusal(u, error_message) ==
    /\ sent' = IF error_message = "" THEN {} ELSE {<<u, error_message>>}
    /\ returned' = ""
    /\ UNCHANGED <<dmVars, tasks, gwVars, dbVars, errVars, begins, bgVars, callVars>>

\* HumansGateway.on_enter_set_bot
OnEnterSetBot(u) ==
    IF ~ValidateUserState(u, {"IDLE"})
    THEN Refusal(u, "bot_setting_not_available")
    ELSE /\ userState' = IF allowSetBot
                         THEN [userState EXCEPT ![u] = "WAITING_FOR_BOT_TOKEN"]
                         ELSE userState
         /\ sent' = {<<u, IF allowSetBot THEN "bot_setting_enter_token"
                                         ELSE "bot_setting_not_allowed">>}
         /\ returned' = ""
         /\ UNCHANGED <<dmVars, tasks, gwConversations, dbVars, errVars, begins, bgVars,
                        callVars>>

\* HumansGateway.on_set_bot in the state WAITING_FOR_BOT_TOKEN; found says
\* whether Bot.objects.with_id(bot_token) is a bot.
OnSetBot(u, found) ==
    /\ ValidateUserState(u, {"WAITING_FOR_BOT_TOKEN"})
    /\ userState' = IF found THEN [userState EXCEPT ![u] = "IDLE"] ELSE userState
    /\ sent' = {<<u, IF found THEN "bot_setting_bot_was_set"
                               ELSE "bot_setting_bot_was_not_found">>}
    /\ returned' = ""
    /\ UNCHANGED <<dmVars, tasks, gwConversations, dbVars, errVars, begins, bgVars,
                   callVars>>

\* HumansGateway.on_begin, both branches of the state check.
HumanBegin(u) ==
    IF ValidateUserState(u, {"IDLE"})
    THEN OnBegin(u)
    ELSE Refusal(u, "start_conversation_can_not")

\* HumansGateway.on_message_received: a text is a bot token in the state
\* WAITING_FOR_BOT_TOKEN, a message in IN_DIALOG, and refused elsewhere.
HumanMessage(u) ==
    IF ValidateUserState(u, {"WAITING_FOR_BOT_TOKEN"})
    THEN \E found \in BOOLEAN : OnSetBot(u, found)
    ELSE IF ValidateUserState(u, {"IN_DIALOG"})
         THEN OnUserMessage(u)
         ELSE Refusal(u, "not_in_conversation_unexpected_message")

\* HumansGateway.on_end_dialog, both branches of the state check.
HumanEndDialog(u) ==
    IF ValidateUserState(u, {"IN_DIALOG"})
    THEN OnEndDialog(u)
    ELSE Refusal(u, "not_in_dialog")

\* HumansGateway.on_evaluate_dialog, both branches of the state check.
HumanEvaluateDialog(u, given, score) ==
    IF ValidateUserState(u, {"EVALUATING"})
    THEN OnEvaluateDialog(u, given, score)
    ELSE Refusal(u, "evaluation_not_allowed")

----------------------------------------------------------------------------
(* getUpdates *)

Min(a, b) == IF a < b THEN a ELSE b
Max(a, b) == IF a > b THEN a ELSE b

\* The requests a bot makes.
Requests ==
    {Request(FALSE, 0, FALSE, 0)}
    \cup {Request(FALSE, 0, TRUE, lm) : lm \in {-1, 0, 1, 2}}
    \cup {Request(TRUE, tm, FALSE, 0) : tm \in {0, 1}}
    \cup {Request(TRUE, tm, TRUE, lm) : tm \in {0, 1}, lm \in {-1, 0, 1, 2}}

\* A timeout that is one second unless a longer one is asked for.
TimeoutAtLeastOne(req) == IF req.timeout_given /\ req.timeout > 0 THEN req.timeout ELSE 1

\* timeout = timeout or 0
Timeout(req) == IF req.timeout_given THEN req.timeout ELSE 0

\* limit = limit or 100; limit = min(100, max(limit, 1))
Limit(req) ==
    Min(100, Max(IF req.limit_given /\ req.limit # 0 THEN req.limit ELSE 100, 1))

\* A get_updates call for bot b has not returned yet.
Polling(b) == \E t \in BagToSet(tasks) : t.op = "get_updates" /\ t.peer = b

\* BotsGateway.get_updates for a registered bot that no other call is
\* polling, from the read of the bot record to asyncio.wait_for(q.get(),
\* timeout).  With an envelope in the queue q.get() takes it, unless the
\* timeout is 0 and wait_for cancels q.get() before it has run; with an
\* empty queue the call waits, or times out at once when the timeout is 0.
GetUpdates(b, req) ==
    /\ ~Polling(b)
    /\ CanSpawn
    /\ LET t == [NoTask EXCEPT !.op = "get_updates", !.peer = b, !.req = req,
                               !.seen = botQueues[b], !.base = lastUpdateId[b]]
       IN  IF botQueues[b] # <<>> /\ (Timeout(req) > 0 \/ waitForStartsTask)
           THEN /\ botQueues' = [botQueues EXCEPT ![b] = Tail(@)]
                /\ tasks' = Spawn([t EXCEPT !.pc = "gu_drain", !.got = <<Head(botQueues[b])>>])
           ELSE IF botQueues[b] = <<>> /\ Timeout(req) > 0
           THEN /\ tasks' = Spawn([t EXCEPT !.pc = "gu_wait"])
                /\ UNCHANGED botQueues
           ELSE /\ tasks' = Spawn([t EXCEPT !.pc = "gu_save"])
                /\ UNCHANGED botQueues
    /\ UNCHANGED <<dmVars, gwVars, dbVars, errVars, begins, callVars, puts, pollVars,
                   trigrams, replies, optVars>> /\ Silent

\* The q.get() of a waiting call is woken by a put_nowait.
GetUpdatesWoken(t) ==
    /\ t \in At("gu_wait")
    /\ botQueues[t.peer] # <<>>
    /\ botQueues' = [botQueues EXCEPT ![t.peer] = Tail(@)]
    /\ tasks' = Resume(t, [t EXCEPT !.pc = "gu_drain", !.got = <<Head(botQueues[t.peer])>>])
    /\ UNCHANGED <<dmVars, gwVars, dbVars, errVars, begins, callVars, puts, pollVars,
                   trigrams, replies, optVars>> /\ Silent

\* The timeout of a waiting call runs out: asyncio.TimeoutError.
GetUpdatesTimedOut(t) ==
    /\ t \in At("gu_wait")
    /\ tasks' = Resume(t, [t EXCEPT !.pc = "gu_save"])
    /\ UNCHANGED <<dmVars, gwVars, dbVars, errVars, begins, callVars, botQueues, puts,
                   pollVars, trigrams, replies, optVars>> /\ Silent

\* wait_for has returned the first envelope: q.get_nowait() up to limit - 1
\* times, until asyncio.QueueEmpty.
GetUpdatesDrained(t) ==
    /\ t \in At("gu_drain")
    /\ LET q == botQueues[t.peer]
           n == Min(Limit(t.req) - 1, Len(q))
       IN  /\ botQueues' = [botQueues EXCEPT ![t.peer] = SubSeq(q, n + 1, Len(q))]
           /\ tasks' = Resume(t, [t EXCEPT !.pc = "gu_save", !.got = @ \o SubSeq(q, 1, n)])
    /\ UNCHANGED <<dmVars, gwVars, dbVars, errVars, begins, callVars, puts, pollVars,
                   trigrams, replies, optVars>> /\ Silent

\* A numbering of the updates that starts one above bot.last_update_id.
UpdatesFromOne(base, messages) ==
    [i \in 1..Len(messages) |-> [update_id |-> base + i, message |-> messages[i]]]

\* The updates of a call: update_id = bot.last_update_id + i for i from 0.
Updates(base, messages) ==
    [i \in 1..Len(messages) |-> [update_id |-> base + (i - 1), message |-> messages[i]]]

\* bot.last_update_id += len(messages); bot.save has run; the updates are
\* returned.
BotSaved(t) ==
    /\ t \in At("gu_save")
    /\ lastUpdateId' = [lastUpdateId EXCEPT ![t.peer] = t.base + Len(t.got)]
    /\ updates' = Updates(t.base, t.got)
    /\ delivered' = [delivered EXCEPT ![t.peer] = @ \o Updates(t.base, t.got)]
    /\ tasks' = Finish(t)
    /\ UNCHANGED <<dmVars, gwVars, dbVars, errVars, begins, callVars, botQueues, puts,
                   trigrams, replies, optVars>> /\ Silent

----------------------------------------------------------------------------
Next ==
    \/ \E u \in Users : OnBegin(u)
    \/ \E u \in Users : LobbyTimeout(u)
    \/ \E u \in Users : OnUserMessage(u)
    \/ \E u \in Users : OnTopicSwitch(u)
    \/ \E u \in Users : OnEndDialog(u)
    \/ \E u \in Users : OnEvaluateDialog(u, FALSE, 0)
    \/ \E u \in Users : OnOtherPeerProfileSelected(u, 0)
    \/ \E b \in Bots, c \in DOMAIN conversations : OnBotMessage(b, c)
    \/ \E b \in Bots, c \in DOMAIN conversations : OnBotEnd(b, c)
    \/ \E c \in DOMAIN dialogTimeoutHandlers : InactivityTimeout(c)
    \/ \E t \in BagToSet(tasks) : OnHumanInitiatedDialog(t)
    \/ \E t \in BagToSet(tasks) : StartDialogWithBot(t)
    \/ \E t \in BagToSet(tasks) : BotsFound(t)
    \/ \E t \in BagToSet(tasks) : BannedPairChecked(t)
    \/ \E t \in BagToSet(tasks) : ConversationFailed(t)
    \/ \E t \in BagToSet(tasks) : DrawConvId(t, NewConvId)
    \/ \E t \in BagToSet(tasks) : InstantiateDialog(t)
    \/ \E t \in BagToSet(tasks) : StartConversationFirst(t)
    \/ \E t \in BagToSet(tasks) : StartConversationSecond(t)
    \/ \E t \in BagToSet(tasks) : StartInactivityTimer(t)
    \/ \E t \in BagToSet(tasks) : MessageSent(t)
    \/ \E t \in BagToSet(tasks) : StartEvaluations(t)
    \/ \E t \in BagToSet(tasks), i \in {1, 2} : StartEvaluation(t, i)
    \/ \E t \in BagToSet(tasks) : BotEvaluation(t, FALSE, 0, FALSE, 0)
    \/ \E t \in BagToSet(tasks) : FinishConversation(t)
    \/ \E t \in BagToSet(tasks) : CleanupConversation(t)
    \/ \E t \in BagToSet(tasks) : HandleConversationTimeout(t)
    \/ \E b \in Bots, req \in Requests : GetUpdates(b, req)
    \/ \E t \in BagToSet(tasks) : GetUpdatesWoken(t)
    \/ \E t \in BagToSet(tasks) : GetUpdatesTimedOut(t)
    \/ \E t \in BagToSet(tasks) : GetUpdatesDrained(t)
    \/ \E t \in BagToSet(tasks) : BotSaved(t)

\* The whole system from construction.  Its state space is too large to
\* enumerate; the two specifications below restrict what the peers do.
Spec == Init /\ [][Next]_vars

----------------------------------------------------------------------------
(* One conversation, from the moment _instantiate_dialog has registered it:
   u1 drew the bot, or picked u2 from the lobby *)

Registered(p2, nt) ==
    /\ lobby = <<>>
    /\ activeDialogs = {1}
    /\ conversations = <<Conversation("u1", p2, nt)>>
    /\ evaluations = <<>>
    /\ dialogTimeoutHandlers = <<>>
    /\ schedulerJobs = <<>>
    /\ tasks = SetToBag({[NoTask EXCEPT !.op = "begin", !.pc = "inst_gw1", !.conv = 1,
                                         !.peer = "u1", !.other = p2]})
    /\ userState = [u \in Users |-> IF u \in {"u1", p2} THEN "IN_LOBBY" ELSE "IDLE"]
    /\ gwConversations = <<>>
    /\ bots = Bots
    /\ bannedPairs = {}
    /\ bannedUsers = {}
    /\ complaints = << >>
    /\ savedConversations = << >>
    /\ rejected = {}
    /\ refused = {}
    /\ invalid = {}
    /\ begins = IF p2 \in Users THEN 2 ELSE 1
    /\ startEvaluationCalls = <<0>>
    /\ finishConversationCalls = <<0>>
    /\ Constructed
    /\ NoOutput

InitDialog == \E p2 \in {"u2", "b1"} : Registered(p2, MaxTopics) /\ GuardOff

NextDialog ==
    \/ \E u \in Users : OnUserMessage(u)
    \/ \E u \in Users : OnTopicSwitch(u)
    \/ \E u \in Users : OnEndDialog(u)
    \/ \E u \in Users : OnEvaluateDialog(u, FALSE, 0)
    \/ \E u \in Users : OnOtherPeerProfileSelected(u, 0)
    \/ \E b \in Bots, c \in DOMAIN conversations : OnBotMessage(b, c)
    \/ \E b \in Bots, c \in DOMAIN conversations : OnBotEnd(b, c)
    \/ \E c \in DOMAIN dialogTimeoutHandlers : InactivityTimeout(c)
    \/ \E t \in BagToSet(tasks) : StartConversationFirst(t)
    \/ \E t \in BagToSet(tasks) : StartConversationSecond(t)
    \/ \E t \in BagToSet(tasks) : StartInactivityTimer(t)
    \/ \E t \in BagToSet(tasks) : MessageSent(t)
    \/ \E t \in BagToSet(tasks) : StartEvaluations(t)
    \/ \E t \in BagToSet(tasks), i \in {1, 2} : StartEvaluation(t, i)
    \/ \E t \in BagToSet(tasks) : BotEvaluation(t, FALSE, 0, FALSE, 0)
    \/ \E t \in BagToSet(tasks) : FinishConversation(t)
    \/ \E t \in BagToSet(tasks) : CleanupConversation(t)
    \/ \E t \in BagToSet(tasks) : HandleConversationTimeout(t)

SpecDialog == InitDialog /\ [][NextDialog]_vars

----------------------------------------------------------------------------
(* Matching, with conversations in which nobody speaks: the inactivity timer
   ends the dialog phase and then the evaluation *)

NextMatch ==
    \/ \E u \in Users : OnBegin(u)
    \/ \E u \in Users : LobbyTimeout(u)
    \/ \E c \in DOMAIN dialogTimeoutHandlers : InactivityTimeout(c)
    \/ \E t \in BagToSet(tasks) : OnHumanInitiatedDialog(t)
    \/ \E t \in BagToSet(tasks) : StartDialogWithBot(t)
    \/ \E t \in BagToSet(tasks) : BotsFound(t)
    \/ \E t \in BagToSet(tasks) : BannedPairChecked(t)
    \/ \E t \in BagToSet(tasks) : ConversationFailed(t)
    \/ \E t \in BagToSet(tasks) : DrawConvId(t, NewConvId)
    \/ \E t \in BagToSet(tasks) : InstantiateDialog(t)
    \/ \E t \in BagToSet(tasks) : StartConversationFirst(t)
    \/ \E t \in BagToSet(tasks) : StartConversationSecond(t)
    \/ \E t \in BagToSet(tasks) : StartInactivityTimer(t)
    \/ \E t \in BagToSet(tasks) : StartEvaluations(t)
    \/ \E t \in BagToSet(tasks), i \in {1, 2} : StartEvaluation(t, i)
    \/ \E t \in BagToSet(tasks) : FinishConversation(t)
    \/ \E t \in BagToSet(tasks) : CleanupConversation(t)
    \/ \E t \in BagToSet(tasks) : HandleConversationTimeout(t)

SpecMatch == Init /\ [][NextMatch]_vars

\* The loop runs every coroutine that is ready: each user's bot matching
\* takes its next step once it can.
SpecMatchFair ==
    /\ Init
    /\ [][NextMatch]_vars
    /\ \A u \in Users :
          /\ WF_vars(\E t \in BagToSet(tasks) : t.peer = u /\ StartDialogWithBot(t))
          /\ WF_vars(\E t \in BagToSet(tasks) : t.peer = u /\ BotsFound(t))
          /\ WF_vars(\E t \in BagToSet(tasks) : t.peer = u /\ BannedPairChecked(t))
          /\ WF_vars(\E t \in BagToSet(tasks) : t.peer = u /\ DrawConvId(t, NewConvId))
          /\ WF_vars(\E t \in BagToSet(tasks) : t.peer = u /\ InstantiateDialog(t))

----------------------------------------------------------------------------
(* The orchestrator driven through its public methods, as its tests drive
   it, with the real gateways behind it *)

InitApi ==
    /\ Init
    /\ bots = Bots
    /\ bannedPairs = {}

NextApi ==
    \/ \E u \in Users : HumanInitiatedDialog(u)
    \/ \E u \in Users : LobbyTimeout(u)
    \/ \E t \in BagToSet(tasks) : OnHumanInitiatedDialog(t)
    \/ \E t \in BagToSet(tasks) : StartDialogWithBot(t)
    \/ \E t \in BagToSet(tasks) : BotsFound(t)
    \/ \E t \in BagToSet(tasks) : BannedPairChecked(t)
    \/ \E t \in BagToSet(tasks) : DrawConvId(t, NewConvId)
    \/ \E t \in BagToSet(tasks) : InstantiateDialog(t)
    \/ \E t \in BagToSet(tasks) : StartConversationFirst(t)
    \/ \E t \in BagToSet(tasks) : StartConversationSecond(t)
    \/ \E t \in BagToSet(tasks) : StartInactivityTimer(t)

SpecApi == InitApi /\ [][NextApi]_vars

----------------------------------------------------------------------------
(* One registered conversation, with the public methods that take a
   conversation id and a peer called by anybody for any id; as in the tests
   of the orchestrator, each call is awaited before the next is made.  A
   participant complains only while the conversation holds no message: the
   complaints that are stored are the subject of SpecStore *)

Idle == tasks = EmptyBag

\* The calls that store a message stop when the conversation holds MaxCallMsgs.
MsgRoom(c) == c \in DOMAIN conversations => Len(conversations[c].messages) < MaxCallMsgs

InitCalls == Registered("u2", 0) /\ GuardOff

NextCalls ==
    \/ \E c \in 1..MaxConvs, p \in Users \cup Bots :
          Idle /\ MsgRoom(c) /\ OnMessageReceived(c, p, Now) /\ UNCHANGED <<trigrams, replies>>
    \/ \E c \in 1..MaxConvs, p \in Users \cup Bots :
          Idle /\ MsgRoom(c) /\ SwitchToNextTopic(c, p) /\ sent' = TopicSwitched(c, p)
    \/ \E c \in 1..MaxConvs, p \in Users \cup Bots :
          Idle /\ TriggerDialogEndCalled(c, p, "end") /\ UNCHANGED <<trigrams, replies>>
    \/ \E c \in 1..MaxConvs, p \in Users \cup Bots :
          Idle /\ EvaluateDialog(c, p, FALSE, 0) /\ UNCHANGED gwVars
    \/ \E c \in 1..MaxConvs, p \in Users \cup Bots :
          Idle /\ SelectOtherPeerProfile(c, p, FALSE, 0) /\ UNCHANGED gwVars
    \/ \E c \in 1..MaxConvs, p \in Users \cup Bots, given \in BOOLEAN, i \in 0..(MaxParts - 1) :
          Idle /\ SelectOtherPeerProfileSentence(c, p, given, i)
    \/ \E c \in 1..MaxConvs, p \in Users \cup Bots, given \in BOOLEAN, id \in 0..MaxCallMsgs :
          Idle /\ OnMessageEvaluated(c, p, 1, given, id)
    \/ \E c \in 1..MaxConvs, p \in Users \cup Bots :
          Idle /\ (ValidConversationAndPeer(c, p) => Empty(conversations[c])) /\ Complain(c, p)
    \/ \E t \in BagToSet(tasks) : MessageSent(t)
    \/ \E t \in BagToSet(tasks) : StartEvaluations(t)
    \/ \E t \in BagToSet(tasks), i \in {1, 2} : StartEvaluation(t, i)
    \/ \E t \in BagToSet(tasks) : FinishConversation(t)
    \/ \E t \in BagToSet(tasks) : CleanupConversation(t)
    \/ \E t \in BagToSet(tasks) : StartConversationFirst(t)
    \/ \E t \in BagToSet(tasks) : StartConversationSecond(t)
    \/ \E t \in BagToSet(tasks) : StartInactivityTimer(t)

SpecCalls == InitCalls /\ [][NextCalls]_vars


----------------------------------------------------------------------------
(* Properties *)

\* C1: in every reachable state each user is in at most one of the lobby and
\* the participants of an active conversation, and is a participant of at
\* most one active conversation.
C1_OnePlacePerUser ==
    \A u \in Users :
        LET convs == {c \in activeDialogs :
                         \E i \in {1, 2} : conversations[c].participants[i] = u}
        IN  /\ Cardinality(convs) <= 1
            /\ ~(u \in DOMAIN lobby /\ convs # {})

\* C2: the message list of every live conversation is dense (messages[i] has
\* msg_id i, counted from 0), the id a caller of on_message_received gets is
\* the index at which its message was appended, and a message list only
\* grows at its end, so ids increase in order of arrival.
C2_MessageIdsDense ==
    /\ [](\A c \in activeDialogs :
            \A i \in 1..Len(conversations[c].messages) :
                conversations[c].messages[i].msg_id = i - 1)
    /\ [](\A t \in BagToSet(tasks) :
            t.op = "message" =>
                LET msgs == conversations[t.conv].messages
                IN  /\ t.msg_id < Len(msgs)
                    /\ msgs[t.msg_id + 1].msg_id = t.msg_id
                    /\ msgs[t.msg_id + 1].sender = t.peer
                    /\ ~msgs[t.msg_id + 1].system)
    /\ [][\A c \in DOMAIN conversations :
            /\ c \in DOMAIN conversations'
            /\ Len(conversations'[c].messages) >= Len(conversations[c].messages)
            /\ SubSeq(conversations'[c].messages, 1, Len(conversations[c].messages))
                   = conversations[c].messages]_vars

\* A live conversation of three messages, a system message and messages of
\* both participants among them, while the call that appended the third
\* awaits the gateway.
C2_Witness ==
    \E c \in activeDialogs :
        LET msgs == conversations[c].messages
        IN  /\ Len(msgs) = 3
            /\ \E i \in 1..3 : msgs[i].system
            /\ \E i, j \in 1..3 : ~msgs[i].system /\ ~msgs[j].system
                                   /\ msgs[i].sender # msgs[j].sender
            /\ \E t \in At("omr_sent") : t.conv = c /\ t.msg_id = 2

\* C3: start_evaluation is invoked at most once per participant over the life
\* of a conversation, and a dialog end triggered for a conversation that is in
\* evaluation leaves the flags of both sides as they were.
C3_EvaluationStartedOnce ==
    /\ [](\A c \in DOMAIN startEvaluationCalls : startEvaluationCalls[c] <= 1)
    /\ [][\A c \in DOMAIN evaluations :
            c \in DOMAIN evaluations' =>
                \A i \in {1, 2} : evaluations[c][i] \subseteq evaluations'[c][i]]_vars

\* C4: a cleanup started by a completed evaluation does not act (call
\* finish_conversation, remove the conversation) while the flags of some human
\* participant lack SCORE_GIVEN or PROFILE_SELECTED.
C4_CleanupOnlyWhenComplete ==
    \A t \in BagToSet(tasks) :
        (t.pc \in {"cln_fin", "cln_del"} /\ t.op # "timeout"
             /\ t.conv \in DOMAIN evaluations) =>
            \A i \in {1, 2} :
                conversations[t.conv].participants[i] \in Users =>
                    evaluations[t.conv][i] = COMPLETE

\* C5: finish_conversation is invoked at most once on each gateway of a
\* conversation, and no cleanup reaches its del statements after the
\* conversation has been removed (where it raises KeyError).
C5_FinishedOnce ==
    /\ \A c \in DOMAIN finishConversationCalls : finishConversationCalls[c] <= 1
    /\ \A t \in At("cln_del") : t.conv \in activeDialogs

\* C6: the keys of _evaluations and the conversations of all pending
\* inactivity timers are keys of _active_dialogs.
C6_NoStateOutlivesConversation ==
    /\ DOMAIN evaluations \subseteq activeDialogs
    /\ \A c \in DOMAIN dialogTimeoutHandlers :
           dialogTimeoutHandlers[c] = "scheduled" => c \in activeDialogs

\* C7: once a conversation has entered evaluation (it is in _evaluations, or
\* was cleaned up after it) no step appends a message of a participant to it
\* and no step starts forwarding a message of it.
C7_NoMessagesInEvaluation ==
    [][\A c \in DOMAIN conversations :
          (c \in DOMAIN evaluations \/ c \notin activeDialogs) =>
              /\ SelectSeq(conversations'[c].messages, LAMBDA m : ~m.system)
                     = SelectSeq(conversations[c].messages, LAMBDA m : ~m.system)
              /\ \A t \in At("omr_sent")' :
                     t.conv = c => CopiesIn(t, tasks') <= CopiesIn(t, tasks)]_vars

\* A message was rejected for a conversation that is in evaluation and that
\* had accepted messages before.
C7_Witness ==
    \E c \in rejected :
        /\ c \in DOMAIN evaluations
        /\ \E i \in 1..Len(conversations[c].messages) :
               ~conversations[c].messages[i].system

C9_TimeoutPhases ==
    [][/\ \A t \in At("hct") :
             (\/ tasks' = Finish(t)
              \/ \E pc \in {"ife_db", "cln_fin"} : tasks' = Resume(t, [t EXCEPT !.pc = pc])) =>
                 IF t.conv \in DOMAIN evaluations
                 THEN /\ tasks' = Resume(t, [t EXCEPT !.pc = "cln_fin"])
                      /\ finishConversationCalls'[t.conv] >= 1
                      /\ evaluations' = evaluations
                 ELSE IF t.conv \in activeDialogs
                 THEN /\ evaluations' = Put(evaluations, t.conv, <<NONE, NONE>>)
                      /\ t.conv \in DOMAIN dialogTimeoutHandlers'
                      /\ dialogTimeoutHandlers'[t.conv] = "scheduled"
                      /\ tasks' = Resume(t, [t EXCEPT !.pc = "ife_db"])
                 ELSE tasks' = Finish(t)
       /\ \A t \in At("ife_db") :
             (t.op = "timeout" /\ tasks' = Resume(t, [t EXCEPT !.pc = "ife_gw", !.pend = {1, 2}])) =>
                 startEvaluationCalls'[t.conv] >= 1
       /\ \A t \in At("cln_del") :
             (t.op = "timeout" /\ tasks' = Finish(t)) =>
                 /\ t.conv \notin activeDialogs'
                 /\ t.conv \notin DOMAIN evaluations'
                 /\ t.conv \notin DOMAIN dialogTimeoutHandlers']_vars

\* The callback found the conversation in evaluation with the score of one
\* side given and nothing else, and has started the cleanup.
C9_Witness ==
    \E t \in At("cln_fin") :
        /\ t.op = "timeout"
        /\ t.conv \in DOMAIN evaluations
        /\ \E i \in {1, 2} : evaluations[t.conv][i] = SCORE_GIVEN
        /\ \E i \in {1, 2} : evaluations[t.conv][i] = NONE

\* C10: a user whose lobby timer has fired is paired with a bot (the
\* callback registers a conversation) or gets PEER_NOT_FOUND (the callback
\* reaches on_conversation_failed).
C10_LobbyFallback ==
    \A u \in Users :
        (u \in DOMAIN lobby /\ lobby[u] = "fired") ~>
            \E t \in BagToSet(tasks) :
                /\ t.op = "lobby_timeout"
                /\ t.peer = u
                /\ t.pc \in {"failed_sent", "inst_gw1"}

\* C11: bot matching always ends.  When every candidate bot forms a
\* BannedPair with the user it ends with PEER_NOT_FOUND for the user and no
\* conversation; otherwise it ends with a conversation whose bot is a
\* candidate that forms no BannedPair with the user.
C11_BotMatchingTerminates ==
    /\ \A u \in Users :
          (\E t \in At("sdb_bots") : t.peer = u) ~>
              (\E t \in BagToSet(tasks) :
                  /\ t.peer = u
                  /\ \/ /\ t.pc = "failed_sent"
                        /\ \A b \in bots : <<u, b>> \in bannedPairs
                     \/ /\ t.pc = "inst_reg"
                        /\ t.other \in bots
                        /\ <<u, t.other>> \notin bannedPairs)
    /\ [](\A t \in At("failed_sent") :
             \A b \in bots : <<t.peer, b>> \in bannedPairs)
    /\ [](\A t \in At("inst_reg") :
             t.other \in Bots => t.other \in bots /\ <<t.peer, t.other>> \notin bannedPairs)

\* C12: on_human_initiated_dialog for a banned user, or for a user who is in
\* the lobby or a participant of an active conversation, raises (the banned
\* error, resp. the simultaneous-dialogs error) and changes nothing: lobby,
\* active dialogs, evaluations and timers stay as they are, and the call
\* ends there, so no gateway is told of a conversation start.
C12_BeginRefused ==
    [][\A t \in At("ohid") :
          LET banned == t.peer \in bannedUsers
              busy == \/ t.peer \in DOMAIN lobby
                      \/ \E c \in activeDialogs, i \in {1, 2} :
                            conversations[c].participants[i] = t.peer
          IN  OnHumanInitiatedDialog(t) /\ (banned \/ busy) =>
                 /\ UNCHANGED <<lobby, activeDialogs, conversations, evaluations,
                                dialogTimeoutHandlers, gwVars, callVars>>
                 /\ tasks' = Finish(t)
                 /\ refused' \ refused =
                        {<<t.peer, IF banned THEN "UserBannedError"
                                   ELSE "SimultaneousDialogsError">>} \ refused]_vars

\* A banned user was refused, and so was a user who is a participant of an
\* active conversation with a bot.
C12_Witness ==
    /\ \E u \in bannedUsers : <<u, "UserBannedError">> \in refused
    /\ \E u \in Users \ bannedUsers :
          /\ <<u, "SimultaneousDialogsError">> \in refused
          /\ u \notin DOMAIN lobby
          /\ \E c \in activeDialogs : conversations[c].participants = <<u, "b1">>

----------------------------------------------------------------------------
(* A conversation of u1 with the bot b1, from the moment it is registered:
   the bot sends messages and '/end', with the trigram guard on or off *)

InitBots ==
    /\ Registered("b1", 0)
    /\ nBadMessagesThreshold \in {0, BadMessagesThreshold}
    /\ waitForStartsTask = TRUE
    /\ allowSetBot = FALSE
    /\ NoText

NextBots ==
    \/ \E u \in Users : OnUserMessage(u)
    \/ \E u \in Users : OnEvaluateDialog(u, FALSE, 0)
    \/ \E u \in Users : OnOtherPeerProfileSelected(u, 0)
    \/ \E b \in Bots, c \in DOMAIN conversations : OnBotMessage(b, c)
    \/ \E b \in Bots, c \in DOMAIN conversations : OnBotEnd(b, c)
    \/ \E t \in BagToSet(tasks) : StartConversationFirst(t)
    \/ \E t \in BagToSet(tasks) : StartConversationSecond(t)
    \/ \E t \in BagToSet(tasks) : MessageSent(t)
    \/ \E t \in BagToSet(tasks) : StartEvaluations(t)
    \/ \E t \in BagToSet(tasks), i \in {1, 2} : StartEvaluation(t, i)
    \/ \E t \in BagToSet(tasks) : BotEvaluation(t, FALSE, 0, FALSE, 0)
    \/ \E t \in BagToSet(tasks) : FinishConversation(t)
    \/ \E t \in BagToSet(tasks) : CleanupConversation(t)

SpecBots == InitBots /\ [][NextBots]_vars

----------------------------------------------------------------------------
(* The same conversation with a bot that only polls: the envelopes are the
   '/start', the messages of u1 and the start of the evaluation that the
   length of the conversation triggers *)

InitPoll ==
    /\ Registered("b1", 0)
    /\ nBadMessagesThreshold = 0
    /\ waitForStartsTask \in BOOLEAN
    /\ allowSetBot = FALSE
    /\ NoText

NextPoll ==
    \/ \E u \in Users : OnUserMessage(u)
    \/ \E b \in Bots, req \in Requests : GetUpdates(b, req)
    \/ \E t \in BagToSet(tasks) : GetUpdatesWoken(t)
    \/ \E t \in BagToSet(tasks) : GetUpdatesTimedOut(t)
    \/ \E t \in BagToSet(tasks) : GetUpdatesDrained(t)
    \/ \E t \in BagToSet(tasks) : BotSaved(t)
    \/ \E t \in BagToSet(tasks) : StartConversationFirst(t)
    \/ \E t \in BagToSet(tasks) : StartConversationSecond(t)
    \/ \E t \in BagToSet(tasks) : MessageSent(t)
    \/ \E t \in BagToSet(tasks) : StartEvaluations(t)
    \/ \E t \in BagToSet(tasks), i \in {1, 2} : StartEvaluation(t, i)

SpecPoll == InitPoll /\ [][NextPoll]_vars

----------------------------------------------------------------------------
(* The commands of two users, in every state of the gateway: no bot is
   registered, so a conversation is between the two users *)

InitGateway ==
    /\ Started
    /\ bots = {}
    /\ bannedPairs = {}
    /\ bannedUsers \in {{}, {"u2"}}
    /\ nBadMessagesThreshold = 0
    /\ waitForStartsTask = TRUE
    /\ allowSetBot = TRUE
    /\ NoText

NextGateway ==
    \/ \E u \in Users : HumanBegin(u)
    \/ \E u \in Users :
          (u \in DOMAIN gwConversations => MsgRoom(gwConversations[u])) /\ HumanMessage(u)
    \/ \E u \in Users : HumanEndDialog(u)
    \/ \E u \in Users : HumanEvaluateDialog(u, FALSE, 0)
    \/ \E u \in Users : OnOtherPeerProfileSelected(u, 0)
    \/ \E u \in Users : OnEnterSetBot(u)
    \/ \E t \in BagToSet(tasks) : OnHumanInitiatedDialog(t)
    \/ \E t \in BagToSet(tasks) : BotsFound(t)
    \/ \E t \in BagToSet(tasks) : ConversationFailed(t)
    \/ \E t \in BagToSet(tasks) : DrawConvId(t, NewConvId)
    \/ \E t \in BagToSet(tasks) : InstantiateDialog(t)
    \/ \E t \in BagToSet(tasks) : StartConversationFirst(t)
    \/ \E t \in BagToSet(tasks) : StartConversationSecond(t)
    \/ \E t \in BagToSet(tasks) : StartInactivityTimer(t)
    \/ \E t \in BagToSet(tasks) : MessageSent(t)
    \/ \E t \in BagToSet(tasks) : StartEvaluations(t)
    \/ \E t \in BagToSet(tasks), i \in {1, 2} : StartEvaluation(t, i)
    \/ \E t \in BagToSet(tasks) : FinishConversation(t)
    \/ \E t \in BagToSet(tasks) : CleanupConversation(t)

SpecGateway == InitGateway /\ [][NextGateway]_vars

----------------------------------------------------------------------------
(* The evaluation of one conversation: the orchestrator's methods called with
   every kind of argument, whenever the event loop is free, also while the
   start of the evaluation is suspended *)

\* The scores and the profile indices submitted: the ends of the range, and
\* the values next to them.
ScoreInputs == {DialogEvalMin - 1, DialogEvalMin, DialogEvalMax, DialogEvalMax + 1}
ProfileIdxInputs == (0 - 1)..ProfileOptions

Participants(c) == {conversations[c].participants[i] : i \in {1, 2}}

InitEval == \E p2 \in {"u2", "b1"} : Registered(p2, 0) /\ GuardOff

NextEval ==
    \/ \E c \in DOMAIN conversations : \E p \in Participants(c) :
          Idle /\ c \notin DOMAIN evaluations /\ TriggerDialogEndCalled(c, p, "end") /\ UNCHANGED <<trigrams, replies>>
    \/ \E c \in DOMAIN conversations : \E p \in Participants(c), given \in BOOLEAN,
          score \in ScoreInputs :
          BagCardinality(tasks) <= 1 /\ EvaluateDialog(c, p, given, score) /\ UNCHANGED gwVars
    \/ \E c \in DOMAIN conversations : \E p \in Participants(c), given \in BOOLEAN,
          profile_idx \in ProfileIdxInputs :
          BagCardinality(tasks) <= 1 /\ SelectOtherPeerProfile(c, p, given, profile_idx) /\ UNCHANGED gwVars
    \/ \E c \in DOMAIN conversations : \E p \in Participants(c) :
          BagCardinality(tasks) <= 1 /\ SelectOtherPeerProfileSentence(c, p, FALSE, 0)
    \/ \E b \in Bots, c \in DOMAIN conversations : Idle /\ c \notin DOMAIN evaluations /\ OnBotEnd(b, c)
    \/ \E t \in BagToSet(tasks), given \in BOOLEAN, score \in ScoreInputs,
          idx_given \in BOOLEAN, profile_idx \in ProfileIdxInputs :
          BotEvaluation(t, given, score, idx_given, profile_idx)
    \/ \E t \in BagToSet(tasks) : StartConversationFirst(t)
    \/ \E t \in BagToSet(tasks) : StartConversationSecond(t)
    \/ \E t \in BagToSet(tasks) : StartInactivityTimer(t)
    \/ \E t \in BagToSet(tasks) : StartEvaluations(t)
    \/ \E t \in BagToSet(tasks), i \in {1, 2} : StartEvaluation(t, i)
    \/ \E t \in BagToSet(tasks) : FinishConversation(t)
    \/ \E t \in BagToSet(tasks) : CleanupConversation(t)

SpecEval == InitEval /\ [][NextEval]_vars

----------------------------------------------------------------------------
(* One conversation whose participants write at any times and complain, up
   to its cleanup: what reaches the database *)

InitStore == \E p2 \in {"u2", "b1"} : Registered(p2, 0) /\ GuardOff

NextStore ==
    \/ \E c \in DOMAIN conversations : \E p \in Participants(c), time \in 0..MaxTime :
          Idle /\ OnMessageReceived(c, p, time) /\ UNCHANGED <<trigrams, replies>>
    \/ \E c \in DOMAIN conversations : \E p \in Participants(c) : Idle /\ Complain(c, p)
    \/ \E t \in BagToSet(tasks) : ComplaintSaved(t)
    \/ \E c \in DOMAIN conversations : \E p \in Participants(c) :
          Idle /\ c \notin DOMAIN evaluations /\ TriggerDialogEndCalled(c, p, "end")
               /\ UNCHANGED <<trigrams, replies>>
    \/ \E c \in DOMAIN conversations : \E p \in Participants(c) :
          Idle /\ EvaluateDialog(c, p, FALSE, 0) /\ UNCHANGED gwVars
    \/ \E c \in DOMAIN conversations : \E p \in Participants(c) :
          Idle /\ SelectOtherPeerProfile(c, p, FALSE, 0) /\ UNCHANGED gwVars
    \/ \E t \in BagToSet(tasks) : MessageSent(t)
    \/ \E t \in BagToSet(tasks) : StartConversationFirst(t)
    \/ \E t \in BagToSet(tasks) : StartConversationSecond(t)
    \/ \E t \in BagToSet(tasks) : StartInactivityTimer(t)
    \/ \E t \in BagToSet(tasks) : StartEvaluations(t)
    \/ \E t \in BagToSet(tasks), i \in {1, 2} : StartEvaluation(t, i)
    \/ \E t \in BagToSet(tasks) : FinishConversation(t)
    \/ \E t \in BagToSet(tasks) : CleanupConversation(t)

SpecStore == InitStore /\ [][NextStore]_vars

----------------------------------------------------------------------------
(* One conversation whose participants write, switch the topic and evaluate
   each other's messages *)

MessageScores == (0 - 1)..2

InitMessages == Registered("u2", MaxTopics) /\ GuardOff

NextMessages ==
    \/ \E c \in DOMAIN conversations : \E p \in Participants(c) :
          Idle /\ OnMessageReceived(c, p, Now) /\ UNCHANGED <<trigrams, replies>>
    \/ \E c \in DOMAIN conversations : \E p \in Participants(c) :
          Idle /\ SwitchToNextTopic(c, p) /\ sent' = TopicSwitched(c, p)
    \/ \E c \in DOMAIN conversations : \E p \in Participants(c), score \in MessageScores,
          given \in BOOLEAN, id \in 0..MaxMsgs :
          Idle /\ OnMessageEvaluated(c, p, score, given, id)
    \/ \E t \in BagToSet(tasks) : MessageSent(t)
    \/ \E t \in BagToSet(tasks) : StartConversationFirst(t)
    \/ \E t \in BagToSet(tasks) : StartConversationSecond(t)
    \/ \E t \in BagToSet(tasks) : StartInactivityTimer(t)
    \/ \E t \in BagToSet(tasks) : StartEvaluations(t)
    \/ \E t \in BagToSet(tasks), i \in {1, 2} : StartEvaluation(t, i)

SpecMessages == InitMessages /\ [][NextMessages]_vars

----------------------------------------------------------------------------
\* The eight public methods that take a conversation id and a peer.
PeerCall(c, p) ==
    \/ OnMessageReceived(c, p, Now)
    \/ SwitchToNextTopic(c, p)
    \/ TriggerDialogEndCalled(c, p, "end")
    \/ EvaluateDialog(c, p, FALSE, 0)
    \/ SelectOtherPeerProfile(c, p, FALSE, 0)
    \/ \E given \in BOOLEAN, i \in 0..(MaxParts - 1) :
          SelectOtherPeerProfileSentence(c, p, given, i)
    \/ \E given \in BOOLEAN, id \in 0..(MaxMsgs - 1) : OnMessageEvaluated(c, p, 1, given, id)
    \/ Complain(c, p)

\* C13: a call of on_message_received, on_message_evaluated,
\* switch_to_next_topic, trigger_dialog_end, evaluate_dialog,
\* select_other_peer_profile, select_other_peer_profile_sentence or complain
\* for a conversation that is not active, or by a peer that is not one of its
\* two participants, raises the validation error and changes nothing else;
\* so the sender of every stored message is a participant of its conversation.
C13_InvalidCallsChangeNothing ==
    [][UNCHANGED vars \/
       ((\A c \in 1..MaxConvs, p \in Users \cup Bots :
            (/\ \/ c \notin activeDialogs
                \/ \A k \in {1, 2} : conversations[c].participants[k] # p
             /\ ~(/\ UNCHANGED <<dmVars, tasks, gwVars, dbVars, rejected, refused, begins,
                                 bgVars, callVars>>
                  /\ invalid' = invalid \cup
                         {IF c \notin activeDialogs
                          THEN "There is no active conversation"
                          ELSE "Peer is not a part of the conversation"}))
            => ~PeerCall(c, p))
        /\ (\A c \in DOMAIN conversations' :
              \A k \in 1..Len(conversations'[c].messages) :
                 \E j \in {1, 2} :
                    conversations'[c].messages[k].sender =
                       conversations'[c].participants[j]))]_vars

\* Both validation errors have been raised, one of them after the
\* conversation with its stored messages was cleaned up.
C13_Witness ==
    /\ invalid = {"There is no active conversation",
                  "Peer is not a part of the conversation"}
    /\ 1 \notin activeDialogs
    /\ Len(conversations[1].messages) > 0
    /\ tasks = EmptyBag

----------------------------------------------------------------------------
\* C14: for a bot polled by one get_updates call at a time, the envelopes
\* are returned in the order of their put_nowait calls, each once and none
\* skipped; the i-th update of a response (i from 0) has update_id =
\* last_update_id + i, and the saved last_update_id becomes the previous one
\* plus the number of updates; so the update ids the bot has ever received
\* increase strictly and last_update_id never decreases.
C14_UpdatesInOrder ==
    [][\A b \in Bots :
          /\ lastUpdateId'[b] >= lastUpdateId[b]
          /\ \A t \in BagToSet(tasks) :
                (t.peer = b /\ BotSaved(t)) =>
                   /\ \A i \in 1..Len(updates') :
                         updates'[i].update_id = lastUpdateId[b] + (i - 1)
                   /\ lastUpdateId'[b] = lastUpdateId[b] + Len(updates')
          /\ \A i \in 1..Len(delivered'[b]) : delivered'[b][i].message.seq = i
          /\ \A i, j \in 1..Len(delivered'[b]) :
                i < j => delivered'[b][i].update_id < delivered'[b][j].update_id]_vars

\* The bot has received three updates in more than one response, the last
\* of which held two.
C14_Witness ==
    /\ Len(delivered["b1"]) = 3
    /\ Len(updates) = 2
    /\ lastUpdateId["b1"] = 4
    /\ tasks = EmptyBag
    /\ botQueues["b1"] # <<>>

\* C15: a get_updates call with timeout 0 (given, or absent and defaulted)
\* made when the queue of the bot is empty takes nothing from the queue,
\* returns an empty list and leaves last_update_id as it was, every time it
\* is made.
C15_EmptyPollChangesNothing ==
    [][/\ \A b \in Bots, req \in Requests :
            (/\ ~req.timeout_given \/ req.timeout = 0
             /\ botQueues[b] = <<>>
             /\ GetUpdates(b, req))
            => UNCHANGED <<botQueues, lastUpdateId, delivered>>
       /\ \A t \in BagToSet(tasks) :
            (/\ ~t.req.timeout_given \/ t.req.timeout = 0
             /\ t.seen = <<>>
             /\ BotSaved(t))
            => /\ updates' = <<>>
               /\ UNCHANGED <<botQueues, lastUpdateId, delivered>>]_vars

\* A call with timeout 0 that found the queue empty is about to return,
\* after the bot has received updates from earlier calls.
C15_Witness ==
    \E t \in BagToSet(tasks) :
        /\ t.pc = "gu_save"
        /\ t.req.timeout_given /\ t.req.timeout = 0
        /\ t.seen = <<>>
        /\ Len(delivered[t.peer]) > 0
        /\ lastUpdateId[t.peer] > 1

\* C16: with L = 100 when no limit is given, 1 when the limit is below 1 and
\* min(limit, 100) otherwise, a get_updates call returns at most L updates,
\* and when q >= 1 envelopes are in the queue at the call it returns exactly
\* the first min(L, q) of them and leaves the other q - min(L, q) at the
\* head of the queue in their order.
C16_LimitHonoured ==
    [][\A t \in BagToSet(tasks) :
          BotSaved(t) =>
             LET L == IF ~t.req.limit_given THEN 100
                      ELSE IF t.req.limit < 1 THEN 1
                      ELSE IF t.req.limit < 100 THEN t.req.limit ELSE 100
                 q == Len(t.seen)
                 n == IF L < q THEN L ELSE q
             IN  /\ Len(updates') <= L
                 /\ q >= 1 =>
                       /\ Len(updates') = n
                       /\ \A i \in 1..n : updates'[i].message = t.seen[i]
                       /\ Len(botQueues'[t.peer]) >= q - n
                       /\ \A i \in 1..(q - n) : botQueues'[t.peer][i] = t.seen[n + i]]_vars

\* C17: in the queue of a bot the envelope that starts a conversation has
\* message_id 0, the envelope that starts the evaluation has message_id
\* 10^6, and the envelope of a forwarded message has the msg_id the
\* orchestrator gave to that message of the other peer; and the answer to a
\* bot's sendMessage carries the msg_id the orchestrator gave to the bot's
\* message, or 10^6 when the text was '/end'.
C17_EnvelopeIds ==
    [][\A b \in Bots :
          /\ \A k \in 1..Len(botQueues'[b]) :
                LET e == botQueues'[b][k]
                    msgs == conversations'[e.chat].messages
                IN  /\ e.text = "/start" => e.message_id = 0
                    /\ e.text = "/end" => e.message_id = EvaluationMessageId
                    /\ e.text = "text" =>
                          /\ e.message_id + 1 \in 1..Len(msgs)
                          /\ msgs[e.message_id + 1].msg_id = e.message_id
                          /\ msgs[e.message_id + 1].sender # b
          /\ (replies'[b] # replies[b] /\ replies'[b].ok) =>
                \E t \in BagToSet(tasks) :
                   /\ t.peer = b
                   /\ tasks' = Finish(t)
                   /\ replies'[b].chat = t.conv
                   /\ IF t.op = "bot_end"
                      THEN replies'[b].message_id = EvaluationMessageId
                      ELSE LET msgs == conversations[t.conv].messages
                           IN  /\ t.op = "message"
                               /\ replies'[b].message_id + 1 \in 1..Len(msgs)
                               /\ msgs[replies'[b].message_id + 1].msg_id =
                                     replies'[b].message_id
                               /\ msgs[replies'[b].message_id + 1].sender = b]_vars

\* The queue of b1 holds the '/start', a forwarded message and the start of
\* the evaluation, and b1's second message has been answered with its id.
C17_Witness ==
    /\ \A text \in {"/start", "text", "/end"} :
          \E k \in 1..Len(botQueues["b1"]) : botQueues["b1"][k].text = text
    /\ replies["b1"].ok
    /\ replies["b1"].message_id = 2
    /\ Len(conversations[1].messages) = 3

\* C18 (as stated): in every conversation the first message sent by a human
\* participant has msg_id 0, whatever was stored in the conversation before
\* it.
C18_FirstHumanMessageIsZero ==
    \A c \in DOMAIN conversations :
        LET msgs == conversations[c].messages
            ByHuman(i) == ~msgs[i].system /\ msgs[i].sender \in Users
        IN  \A i \in 1..Len(msgs) :
                (ByHuman(i) /\ \A j \in 1..(i - 1) : ~ByHuman(j)) =>
                    msgs[i].msg_id = 0

\* C18 (amended): the first message stored in a conversation, whoever sent
\* it, has msg_id 0, and the first message sent by a human participant has
\* as its msg_id the number of messages (of the other peer, or records of a
\* topic switch) stored before it.
C18_FirstHumanMessageCountsEarlier ==
    \A c \in DOMAIN conversations :
        LET msgs == conversations[c].messages
            ByHuman(i) == ~msgs[i].system /\ msgs[i].sender \in Users
        IN  /\ Len(msgs) > 0 => msgs[1].msg_id = 0
            /\ \A i \in 1..Len(msgs) :
                  (ByHuman(i) /\ \A j \in 1..(i - 1) : ~ByHuman(j)) =>
                      msgs[i].msg_id = i - 1

\* A conversation whose first human message came after a message of the bot
\* and the record of a topic switch.
C18_Witness ==
    \E c \in DOMAIN conversations :
        LET msgs == conversations[c].messages
        IN  /\ Len(msgs) = 3
            /\ ~msgs[3].system /\ msgs[3].sender \in Users
            /\ \E j \in 1..2 : msgs[j].system
            /\ \E j \in 1..2 : ~msgs[j].system /\ msgs[j].sender \in Bots

\* C19: with a positive threshold, a leaking message of a bot adds one to the
\* bad_messages_in_a_row of its conversation and a clean one sets it to 0; a
\* leaking message that leaves the count below the threshold starts no
\* evaluation and changes nothing in the orchestrator; a leaking message that
\* makes the count reach the threshold triggers dialog end, so that a live
\* conversation is in evaluation afterwards with the bot's side marked as
\* having ended it; with threshold 0 no count is kept up to date and a leaking
\* message is handled exactly like a clean one.
C19_TrigramStreak ==
    [][UNCHANGED vars \/
       (\A b \in Bots : \A c \in DOMAIN conversations :
          \A leak \in BOOLEAN :
             (BotKnows(b, c) /\ CanSpawn /\ BotMessage(b, c, leak)) =>
                IF nBadMessagesThreshold = 0
                THEN trigrams' = trigrams /\ BotMessage(b, c, ~leak)
                ELSE HasStorage(c) =>
                       /\ trigrams'[c] = IF leak THEN trigrams[c] + 1 ELSE 0
                       /\ (leak /\ trigrams'[c] < nBadMessagesThreshold) =>
                             UNCHANGED <<dmVars, tasks>>
                       /\ (leak /\ trigrams'[c] >= nBadMessagesThreshold
                               /\ ValidConversationAndPeer(c, b)) =>
                             /\ c \in DOMAIN evaluations'
                             /\ evaluations'[c] = <<NONE, NONE>>
                             /\ conversations'[c].triggered_dialog_end[
                                    PeerIdx(conversations[c], b)]
                             /\ tasks' # tasks)]_vars

\* With threshold 2, the bot's second leaking message in a row has just
\* forced the end of the live conversation 1.
C19_Witness ==
    /\ nBadMessagesThreshold = BadMessagesThreshold
    /\ HasStorage(1)
    /\ trigrams[1] = BadMessagesThreshold
    /\ 1 \in activeDialogs
    /\ 1 \in DOMAIN evaluations
    /\ conversations[1].triggered_dialog_end = <<FALSE, TRUE>>
    /\ \E t \in BagToSet(tasks) : t.op = "bot_leak" /\ t.conv = 1

\* C20: a leak found by the trigram guard is never shown to the bot: no
\* sendMessage request of a bot is answered with the error
\* ProfileTrigramDetectedInMessageError, below the threshold or at it.
C20_LeakNeverSurfaced ==
    \A b \in Bots : replies[b].error # "ProfileTrigramDetectedInMessageError"

\* C29: when on_human_initiated_dialog takes the human route and picks a peer
\* P from the lobby, P leaves the lobby (its timer cancelled) and the dialog
\* (user, P) is instantiated; with an empty lobby the user is put in the
\* lobby with a scheduled timer and no conversation is registered; and the
\* bot matching of a lobby timer runs only for a user who is still in the
\* lobby, never for one who was picked, also when the timer had fired
\* before the pick.
C29_PickedPeerNeverBotMatched ==
    [][\A t \in BagToSet(tasks) :
          /\ (t.pc = "ohid" /\ OnHumanInitiatedDialog(t)) =>
                /\ \A t2 \in BagToSet(tasks') :
                      (t2.pc = "inst_reg" /\ t2.peer = t.peer) =>
                          /\ t2.other \in DOMAIN lobby
                          /\ t2.other \notin DOMAIN lobby'
                          /\ conversations' = conversations
                /\ t.peer \in DOMAIN lobby' =>
                      /\ DOMAIN lobby = {}
                      /\ lobby'[t.peer] = "scheduled"
                      /\ tasks' = Finish(t)
                      /\ conversations' = conversations
          /\ (t.pc = "sdb" /\ StartDialogWithBot(t)) => t.peer \in DOMAIN lobby]_vars

\* C23: the completion rule (_handle_evaluation_state) starts the cleanup of
\* a conversation only when every human side has both flags and every bot
\* side has submitted an evaluation, that is, has been given a flag by
\* evaluate_dialog or select_other_peer_profile.
C23_BotCompleteOnSubmission ==
    [][\A c \in DOMAIN conversations :
          (\E t \in BagToSet(tasks') :
              /\ t.conv = c /\ t.pc = "cln_fin" /\ t.op # "timeout"
              /\ CopiesIn(t, tasks') > CopiesIn(t, tasks)) =>
             /\ c \in DOMAIN evaluations'
             /\ \A i \in {1, 2} :
                   IF conversations[c].participants[i] \in Bots
                   THEN evaluations'[c][i] # NONE
                   ELSE evaluations'[c][i] = COMPLETE]_vars

\* C27: a topic switch requested by a user in a live conversation advances
\* active_topic_index by exactly 1 iff both profiles define a topic at the
\* next index and leaves it unchanged otherwise; a system message is
\* appended exactly when the index advances, and the human participants are
\* told the topic exactly when the index advances.
C27_TopicSwitch ==
    [][\A u \in Users :
          (/\ userState[u] = "IN_DIALOG"
           /\ u \in DOMAIN gwConversations
           /\ ValidConversationAndPeer(gwConversations[u], u)
           /\ OnTopicSwitch(u)) =>
             LET old == conversations[gwConversations[u]]
                 new == conversations'[gwConversations[u]]
                 defined == old.active_topic_index + 1 < old.topics_n
                 advanced == new.active_topic_index = old.active_topic_index + 1
                 appended == /\ Len(new.messages) = Len(old.messages) + 1
                             /\ new.messages[Len(new.messages)].system
                 told == \A i \in {1, 2} :
                            old.participants[i] \in Users =>
                                <<old.participants[i], "topic_switched">> \in sent'
             IN  /\ new.active_topic_index =
                       IF defined THEN old.active_topic_index + 1
                       ELSE old.active_topic_index
                 /\ advanced <=> appended
                 /\ advanced <=> told]_vars

\* C28: switch_to_next_topic returns whether the switch happened, and the
\* humans' gateway tells the requesting user that switching is not available
\* iff no switch happened.
C28_SwitchResult ==
    [][\A u \in Users :
          (/\ userState[u] = "IN_DIALOG"
           /\ u \in DOMAIN gwConversations
           /\ ValidConversationAndPeer(gwConversations[u], u)
           /\ OnTopicSwitch(u)) =>
             LET old == conversations[gwConversations[u]]
                 new == conversations'[gwConversations[u]]
                 advanced == new.active_topic_index = old.active_topic_index + 1
             IN  /\ returned' = IF advanced THEN "True" ELSE "False"
                 /\ <<u, "switch_topic_not_available">> \in sent' <=> ~advanced]_vars

\* C25 (as stated): /begin outside IDLE, a text outside IN_DIALOG, /end
\* outside IN_DIALOG and a dialog score outside EVALUATING only send the
\* user an error message: the orchestrator is not called, no state changes
\* and nothing is raised; /begin of a user who is IDLE and not banned puts
\* the user in IN_LOBBY and calls on_human_initiated_dialog once.
C25_ForbiddenCommandsOnlyInform ==
    [][\A u \in Users :
          LET OnlyTold(error_message) ==
                  /\ sent' = {<<u, error_message>>}
                  /\ returned' = ""
                  /\ UNCHANGED <<dmVars, tasks, gwVars, dbVars, errVars, begins, bgVars,
                                 callVars>>
          IN  /\ (userState[u] # "IDLE" /\ HumanBegin(u)) =>
                    OnlyTold("start_conversation_can_not")
              /\ (userState[u] \notin {"IN_DIALOG"} /\ HumanMessage(u)) =>
                    OnlyTold("not_in_conversation_unexpected_message")
              /\ (userState[u] # "IN_DIALOG" /\ HumanEndDialog(u)) =>
                    OnlyTold("not_in_dialog")
              /\ (userState[u] # "EVALUATING" /\ HumanEvaluateDialog(u, FALSE, 0)) =>
                    OnlyTold("evaluation_not_allowed")
              /\ (userState[u] = "IDLE" /\ ~UserBanned(u) /\ HumanBegin(u)) =>
                    /\ userState' = [userState EXCEPT ![u] = "IN_LOBBY"]
                    /\ tasks' = Spawn([NoTask EXCEPT !.op = "begin", !.pc = "ohid",
                                                     !.peer = u])
                    /\ returned' = ""]_vars

\* C25 (amended): as above, but a text is refused only outside IN_DIALOG
\* and WAITING_FOR_BOT_TOKEN: in WAITING_FOR_BOT_TOKEN it is taken as a bot
\* token by on_set_bot, which may put the user back in IDLE.
C25_ForbiddenCommandsButToken ==
    [][\A u \in Users :
          LET OnlyTold(error_message) ==
                  /\ sent' = {<<u, error_message>>}
                  /\ returned' = ""
                  /\ UNCHANGED <<dmVars, tasks, gwVars, dbVars, errVars, begins, bgVars,
                                 callVars>>
          IN  /\ (userState[u] # "IDLE" /\ HumanBegin(u)) =>
                    OnlyTold("start_conversation_can_not")
              /\ (userState[u] \notin {"IN_DIALOG", "WAITING_FOR_BOT_TOKEN"} /\ HumanMessage(u)) =>
                    OnlyTold("not_in_conversation_unexpected_message")
              /\ (userState[u] # "IN_DIALOG" /\ HumanEndDialog(u)) =>
                    OnlyTold("not_in_dialog")
              /\ (userState[u] # "EVALUATING" /\ HumanEvaluateDialog(u, FALSE, 0)) =>
                    OnlyTold("evaluation_not_allowed")
              /\ (userState[u] = "IDLE" /\ ~UserBanned(u) /\ HumanBegin(u)) =>
                    /\ userState' = [userState EXCEPT ![u] = "IN_LOBBY"]
                    /\ tasks' = Spawn([NoTask EXCEPT !.op = "begin", !.pc = "ohid",
                                                     !.peer = u])
                    /\ returned' = ""]_vars

\* A user who waits for the partner's evaluation has just been refused a
\* text.
C25_Witness ==
    \E u \in Users :
        /\ userState[u] = "WAITING_FOR_PARTNER_EVALUATION"
        /\ sent = {<<u, "not_in_conversation_unexpected_message">>}
        /\ activeDialogs # {}

----------------------------------------------------------------------------
\* C21: evaluate_dialog, select_other_peer_profile and
\* select_other_peer_profile_sentence of a participant raise while the
\* evaluation of the conversation is not open; evaluate_dialog raises for a
\* score that is given and lies outside [dialog_eval_min, dialog_eval_max];
\* select_other_peer_profile raises for an index that is given and is not
\* an index of the evaluator's profile options; and a call that raised left
\* the scores, the selected profiles and the parts, the evaluation flags,
\* the timers and the active conversations as they were and started no
\* cleanup.
C21_EvaluationErrors ==
    [][UNCHANGED vars \/
       \A c \in DOMAIN conversations : \A p \in Participants(c) :
          /\ returned' # "ValueError" =>
                /\ \A given \in BOOLEAN, score \in ScoreInputs :
                      (c \notin DOMAIN evaluations \/
                       (given /\ (score < DialogEvalMin \/ score > DialogEvalMax)))
                         => ~EvaluateDialog(c, p, given, score)
                /\ \A given \in BOOLEAN, profile_idx \in ProfileIdxInputs :
                      (c \notin DOMAIN evaluations \/
                       (given /\ profile_idx \notin
                           0..(conversations[c].other_peer_profile_options[
                                   PeerIdx(conversations[c], p)] - 1)))
                         => ~SelectOtherPeerProfile(c, p, given, profile_idx)
                /\ c \notin DOMAIN evaluations
                      => ~SelectOtherPeerProfileSentence(c, p, FALSE, 0)
          /\ (returned' = "ValueError" /\ ~UNCHANGED <<dmVars, tasks, finishConversationCalls>>)
                =>
                /\ \A given \in BOOLEAN, score \in ScoreInputs :
                      ~EvaluateDialog(c, p, given, score)
                /\ \A given \in BOOLEAN, profile_idx \in ProfileIdxInputs :
                      ~SelectOtherPeerProfile(c, p, given, profile_idx)
                /\ ~SelectOtherPeerProfileSentence(c, p, FALSE, 0)]_vars

\* A submission was refused for its value: the conversation is active, its
\* evaluation open and the options set, and the refused evaluator's earlier
\* score and flag are in place.
C21_Witness ==
    /\ returned = "ValueError"
    /\ 1 \in activeDialogs
    /\ 1 \in DOMAIN evaluations
    /\ conversations[1].other_peer_profile_options = <<ProfileOptions, ProfileOptions>>
    /\ conversations[1].dialog_evaluation_score[1] = Some(DialogEvalMax)
    /\ conversations[1].other_peer_profile_selected[1] = None
    /\ evaluations[1][1] = ScoreFlags

----------------------------------------------------------------------------
\* C22: on_message_evaluated by a participant of an active conversation
\* raises for a score other than 0 and 1; without a message id its target is
\* the last message whose sender is not the evaluator, with one the message
\* of that id; it raises when there is no such message or the evaluator sent
\* it; otherwise the score of the target, and of no other message, is set,
\* and nothing else changes: no flag, no timer, no coroutine, no gateway
\* state.
C22_MessageEvaluated ==
    [][UNCHANGED vars \/
       \A c \in DOMAIN conversations : \A p \in Participants(c) :
          \A score \in MessageScores, given \in BOOLEAN, id \in 0..MaxMsgs :
             (c \in activeDialogs /\ OnMessageEvaluated(c, p, score, given, id)) =>
                LET msgs == conversations[c].messages
                    others == {i \in 1..Len(msgs) : msgs[i].sender # p}
                    targets == IF given
                               THEN {i \in 1..Len(msgs) : msgs[i].msg_id = id}
                               ELSE {i \in others : \A j \in others : j <= i}
                IN  /\ Cardinality(targets) <= 1
                    /\ UNCHANGED <<lobby, activeDialogs, evaluations, dialogTimeoutHandlers,
                                   tasks, gwVars, dbVars, callVars>>
                    /\ IF \/ score \notin {0, 1}
                          \/ targets = {}
                          \/ \E i \in targets : msgs[i].sender = p
                       THEN /\ returned' = "ValueError"
                            /\ UNCHANGED conversations
                       ELSE /\ returned' = ""
                            /\ \A i \in targets :
                                  conversations' = [conversations EXCEPT
                                      ![c].messages[i].evaluation_score = Some(score)]]_vars

\* u1 gave the message of u2 a 0 without naming it, after a message of
\* their own had followed it; that one has no score.
C22_Witness ==
    /\ 1 \in activeDialogs
    /\ Len(conversations[1].messages) >= 2
    /\ conversations[1].messages[1].sender = "u2"
    /\ conversations[1].messages[1].evaluation_score = Some(0)
    /\ conversations[1].messages[2].sender = "u1"
    /\ conversations[1].messages[2].evaluation_score = None
    /\ returned = ""
    /\ tasks = EmptyBag

\* C24: complain by a participant of an active conversation returns False
\* for a conversation without messages, and nothing is stored; for one with
\* messages it returns True once exactly one Complaint, of the caller
\* against the other participant, has been stored; neither the call nor the
\* storing changes the messages, the evaluations, the timers or the lobby.
C24_Complain ==
    [][UNCHANGED vars \/
       /\ \A c \in DOMAIN conversations : \A p \in Participants(c) :
             (c \in activeDialogs /\ Complain(c, p)) =>
                /\ UNCHANGED <<dmVars, dbVars, gwVars>>
                /\ IF Len(conversations[c].messages) = 0
                   THEN returned' = "False" /\ tasks' = tasks
                   ELSE /\ returned' = ""
                        /\ \E t \in BagToSet(tasks') :
                              /\ t.pc = "cmp_save" /\ t.conv = c /\ t.peer = p
                              /\ tasks' = tasks (+) SetToBag({t})
       /\ \A t \in BagToSet(tasks) :
             ComplaintSaved(t) =>
                /\ returned' = "True"
                /\ Len(conversations[t.conv].messages) >= 1
                /\ Len(complaints') = Len(complaints) + 1
                /\ SubSeq(complaints', 1, Len(complaints)) = complaints
                /\ complaints'[Len(complaints')].complainer = t.peer
                /\ complaints'[Len(complaints')].complain_to \in Participants(t.conv) \ {t.peer}
                /\ complaints'[Len(complaints')].conversation = t.conv
                /\ UNCHANGED <<dmVars, gwVars>>
       /\ returned' = "True" => \E t \in BagToSet(tasks) : ComplaintSaved(t)
       /\ returned' = "False" =>
             \E c \in DOMAIN conversations : \E p \in Participants(c) :
                Len(conversations[c].messages) = 0 /\ Complain(c, p)]_vars

\* The complaint of u2 against u1 has been stored and complain returned
\* True.
C24_Witness ==
    /\ returned = "True"
    /\ Len(complaints) = 1
    /\ complaints[1] = [complainer |-> "u2", complain_to |-> "u1", conversation |-> 1]
    /\ Len(conversations[1].messages) >= 1

\* C26: when _cleanup_conversation comes to the save, a conversation with
\* messages is stored with all its messages, start_time the least and
\* end_time the greatest of their times; one without messages is not
\* stored; and in both cases the timer of the conversation is gone and the
\* conversation has left _active_dialogs and _evaluations.
C26_SavedAtCleanup ==
    [][UNCHANGED vars \/
       \A t \in BagToSet(tasks) :
          CleanupConversation(t) =>
             LET msgs == conversations[t.conv].messages
                 saved == savedConversations'[t.conv]
             IN  /\ Len(msgs) >= 1 =>
                       /\ t.conv \in DOMAIN savedConversations'
                       /\ saved.messages = msgs
                       /\ \A i \in 1..Len(msgs) :
                             saved.start_time <= msgs[i].time /\ msgs[i].time <= saved.end_time
                       /\ \E i \in 1..Len(msgs) : saved.start_time = msgs[i].time
                       /\ \E i \in 1..Len(msgs) : saved.end_time = msgs[i].time
                 /\ Len(msgs) = 0 => savedConversations' = savedConversations
                 /\ t.conv \notin activeDialogs'
                 /\ t.conv \notin DOMAIN evaluations'
                 /\ t.conv \notin DOMAIN dialogTimeoutHandlers']_vars

\* A conversation whose first message is later than its second has been
\* cleaned up and stored; and so has, in another run, one without messages.
C26_Witness ==
    /\ activeDialogs = {}
    /\ tasks = EmptyBag
    /\ Len(conversations[1].messages) = 2
    /\ conversations[1].messages[1].time > conversations[1].messages[2].time
    /\ 1 \in DOMAIN savedConversations
    /\ savedConversations[1].start_time = conversations[1].messages[2].time
    /\ savedConversations[1].end_time = conversations[1].messages[1].time

----------------------------------------------------------------------------
\* _instantiate_dialog has finished for c and c is still in _active_dialogs.
Instantiated(c) ==
    /\ c \in activeDialogs
    /\ \A t \in BagToSet(tasks) :
          t.conv = c => t.pc \notin {"inst_gw1", "inst_gw2", "inst_timer"}

\* The timer of c and the job store after an accepted message below the
\* length cap was forwarded.
TimerResetByMessage ==
    \A t \in BagToSet(tasks) :
       (MessageSent(t) /\ ~LengthThresholdReached(conversations[t.conv])) =>
          /\ t.conv \in DOMAIN dialogTimeoutHandlers'
          /\ dialogTimeoutHandlers'[t.conv] = "scheduled"
          /\ Pending(schedulerJobs', t.conv) = 1

----------------------------------------------------------------------------
(* Matching with any draw of the conversation id: two instantiations can
   draw the same number *)

NextIds ==
    \/ NextMatch
    \/ \E t \in BagToSet(tasks), conv_id \in 1..MaxConvs : DrawConvId(t, conv_id)

SpecIds == Init /\ [][NextIds]_vars

\* C31: the id under which _instantiate_dialog registers a conversation is
\* the id of no live and of no stored conversation, also when another
\* instantiation was suspended at the lookup at the same time: the
\* registration adds an entry to _active_dialogs and replaces none.
C31_ConversationIdsUnique ==
    [][\A t \in BagToSet(tasks) :
          (/\ t.pc = "inst_lookup"
           /\ ~(/\ t.conv \notin activeDialogs
                /\ t.conv \notin DOMAIN conversations
                /\ t.conv \notin DOMAIN savedConversations
                /\ activeDialogs' = activeDialogs \cup {t.conv}))
          => ~(InstantiateDialog(t) /\ t.conv \in activeDialogs')]_vars

\* C32: the envelopes of one conversation are put on the bot's queue in the
\* order of the protocol: '/start' before every message of the peer, the
\* messages by increasing msg_id, the '/end' of the evaluation after them.
C32_BotDeliveryOrder ==
    \A b \in Bots :
        LET q == botQueues[b]
            Rank(e) == IF e.text = "/start" THEN 0 ELSE IF e.text = "/end" THEN 2 ELSE 1
        IN  \A i \in 1..Len(q), j \in 1..Len(q) :
                (i < j /\ q[i].chat = q[j].chat) =>
                    /\ Rank(q[i]) <= Rank(q[j])
                    /\ (Rank(q[i]) = 1 /\ Rank(q[j]) = 1) => q[i].message_id < q[j].message_id

----------------------------------------------------------------------------
(* The n-grams of a text.  A text is a sequence of characters: "a" and "b"
   are lower-case letters, "B" is an upper-case letter, "-" is any character
   that is not a word character (re's \W) *)

\* The longest text looked at.
MaxTextLen == 11

\* n_gr of _text_to_trigrams.
NGr == 5

\* The words _text_to_trigrams cuts a text into; a word is a sequence of
\* characters.
Words(text) ==
    LET \* re.sub(r'\W+', ' ', text).lower()
        RECURSIVE Preprocessed(_)
        Preprocessed(t) ==
            IF t = << >> THEN << >>
            ELSE LET rest == Preprocessed(Tail(t))
                 IN  IF Head(t) = "-"
                     THEN IF rest # << >> /\ Head(rest) = " " THEN rest ELSE <<" ">> \o rest
                     ELSE <<IF Head(t) = "B" THEN "b" ELSE Head(t)>> \o rest
        \* str.split(' '): the pieces between single spaces, empty ones included
        RECURSIVE Split(_)
        Split(t) ==
            IF \A i \in 1..Len(t) : t[i] # " " THEN <<t>>
            ELSE LET i == CHOOSE i \in 1..Len(t) : t[i] = " " /\ \A j \in 1..(i - 1) : t[j] # " "
                 IN  <<SubSeq(t, 1, i - 1)>> \o Split(SubSeq(t, i + 1, Len(t)))
    IN  Split(Preprocessed(text))

\* BotsGateway.TrigramsStorage._text_to_trigrams: an n-gram is a sequence
\* (tuple) of words.
TextToTrigrams(text) ==
    LET words == Words(text)
    IN  IF Len(words) <= NGr
        THEN {words}
        ELSE {SubSeq(words, i + 1, i + NGr) : i \in 0..(Len(words) - NGr - 1)}

\* BotsGateway.TrigramsStorage.is_message_ok(msgText) of the storage built
\* from profileDescription.
IsMessageOk ==
    /\ returned = ""
    /\ returned' = IF TextToTrigrams(msgText) \cap TextToTrigrams(profileDescription) = {}
                   THEN "True" ELSE "False"
    /\ sent' = {}
    /\ UNCHANGED <<dmVars, tasks, gwVars, dbVars, errVars, begins, callVars, bgVars>>

\* A bot with a profile of one, five or six words sends any text.
InitTrigrams ==
    /\ Registered("b1", 0)
    /\ nBadMessagesThreshold = BadMessagesThreshold
    /\ waitForStartsTask = TRUE
    /\ allowSetBot = FALSE
    /\ profileDescription \in {<<"a">>,
                                <<"a", "-", "b", "-", "a", "-", "a", "-", "b">>,
                                <<"a", "-", "a", "-", "b", "-", "a", "-", "b", "-", "b">>}
    /\ msgText \in UNION {[1..n -> {"a", "B", "-"}] : n \in 0..MaxTextLen}

SpecTrigrams == InitTrigrams /\ [][IsMessageOk]_vars

\* C33: the n-grams of a text are the windows of 5 consecutive words of the
\* lower-cased text with the runs of non-word characters collapsed, one
\* window starting at every position 0 .. len - 5, and a message is a leak
\* (is_message_ok is False) iff one of its windows is a window of the
\* profile description.
C33_WindowsOfFiveWords ==
    LET Windows(text) ==
            {SubSeq(Words(text), i + 1, i + NGr) : i \in 0..(Len(Words(text)) - NGr)}
    IN  /\ TextToTrigrams(msgText) = Windows(msgText)
        /\ TextToTrigrams(profileDescription) = Windows(profileDescription)
        /\ returned # "" =>
              (returned = "False" <=> Windows(msgText) \cap Windows(profileDescription) # {})

\* C34: finish_conversation(c) of the humans' gateway leaves every user whose
\* record holds c in IDLE and without a record, whatever state the user was
\* in, so that the state check of a following /begin accepts the user; the
\* state and the record of every other user stay as they were.
C34_FinishConversation ==
    [][\A t \in BagToSet(tasks) :
          (/\ t.pc = "cln_fin"
           /\ ~(\A u \in Users :
                   IF u \in DOMAIN gwConversations /\ gwConversations[u] = t.conv
                   THEN /\ userState'[u] = "IDLE"
                        /\ u \notin DOMAIN gwConversations'
                        /\ ValidateUserState(u, {"IDLE"})'
                   ELSE /\ userState'[u] = userState[u]
                        /\ (u \in DOMAIN gwConversations') = (u \in DOMAIN gwConversations)
                        /\ u \in DOMAIN gwConversations =>
                              gwConversations'[u] = gwConversations[u]))
          => ~FinishConversation(t)]_vars

\* The inactivity timer ended the evaluation of a conversation before every
\* side had evaluated: finish_conversation has run, and the human
\* participants, who were not waiting for their partner, are in IDLE without
\* a record.
C34_Witness ==
    \E t \in At("cln_del") :
        /\ t.op = "timeout"
        /\ t.conv \in DOMAIN evaluations
        /\ \E i \in {1, 2} :
              /\ conversations[t.conv].participants[i] \in Users
              /\ evaluations[t.conv][i] # COMPLETE
        /\ \A i \in {1, 2} :
              LET u == conversations[t.conv].participants[i]
              IN  u \in Users => userState[u] = "IDLE" /\ u \notin DOMAIN gwConversations

----------------------------------------------------------------------------
(* The conversation of SpecStore whose participants also guess the profile
   sentence by sentence, at the next index or at an index of their own *)

NextSave ==
    \/ NextStore
    \/ \E c \in DOMAIN conversations : \E p \in Participants(c) :
          \E given \in BOOLEAN, i \in 0..MaxParts :
             Idle /\ SelectOtherPeerProfileSentence(c, p, given, i)

SpecSave == InitStore /\ [][NextSave]_vars

\* C35: of the failures of conversation.save in _cleanup_conversation only
\* that of a conversation without messages is swallowed: a cleanup that
\* runs to its end, taking the conversation out of _active_dialogs, for a
\* conversation with messages has stored the conversation with these
\* messages.
C35_OnlyEmptySwallowed ==
    [][\A t \in BagToSet(tasks) :
          (/\ t.pc = "cln_del"
           /\ Len(conversations[t.conv].messages) >= 1
           /\ ~(/\ t.conv \in DOMAIN savedConversations'
                /\ savedConversations'[t.conv].messages = conversations[t.conv].messages))
          => ~(CleanupConversation(t) /\ t.conv \notin activeDialogs')]_vars

\* C36: guessing sentence by sentence, a call of
\* select_other_peer_profile_sentence leaves the PROFILE_SELECTED flag of
\* the evaluator set exactly when it was set before or a sentence is now
\* selected at every sentence index of the profile of the other peer; and
\* a call for an index that is already answered leaves the answered
\* indices as they were and sends nothing.
C36_SentenceBySentence ==
    [][\A c \in DOMAIN conversations : \A p \in Participants(c) :
          \A given \in BOOLEAN, i \in 0..MaxParts :
             (/\ c \in activeDialogs
              /\ c \in DOMAIN evaluations
              /\ SelectOtherPeerProfileSentence(c, p, given, i))
             => LET k == PeerIdx(conversations[c], p)
                    old == conversations[c].selected_parts[k]
                    new == conversations'[c].selected_parts[k]
                    Answered_(parts) == {j \in 1..Len(parts) : parts[j]}
                IN  /\ PROFILE_SELECTED \subseteq evaluations'[c][k]
                       <=> \/ PROFILE_SELECTED \subseteq evaluations[c][k]
                           \/ 1..ProfileSentences \subseteq Answered_(new)
                    /\ (given /\ (i + 1) \in Answered_(old))
                       => Answered_(new) = Answered_(old) /\ sent' = {}]_vars

\* C37: for every user whose record holds a conversation that is active
\* and in evaluation, the state WAITING_FOR_PARTNER_EVALUATION of the
\* gateway goes with both flags, SCORE_GIVEN and PROFILE_SELECTED, of the
\* user's side in _evaluations; and once no handler is suspended a user
\* whose side lacks a flag is in EVALUATING, where the submission that is
\* missing is accepted.
C37_GatewayAgreesWithEvaluations ==
    \A u \in Users :
       (/\ u \in DOMAIN gwConversations
        /\ gwConversations[u] \in activeDialogs
        /\ gwConversations[u] \in DOMAIN evaluations
        /\ u \in Participants(gwConversations[u]))
       => LET c == gwConversations[u]
              state == evaluations[c][PeerIdx(conversations[c], u)]
          IN  /\ userState[u] = "WAITING_FOR_PARTNER_EVALUATION" => state = COMPLETE
              /\ (tasks = EmptyBag /\ state # COMPLETE) => userState[u] = "EVALUATING"

\* C38: a user whose gateway state is IN_LOBBY is in the lobby of the
\* orchestrator with a timer that is scheduled, or a handler that matches
\* the user or instantiates a dialog for the user is under way; so a /begin
\* that on_human_initiated_dialog refuses does not leave the user in
\* IN_LOBBY.
C38_NoUserStrandedInLobby ==
    \A u \in Users :
       userState[u] = "IN_LOBBY" =>
          \/ u \in DOMAIN lobby /\ lobby[u] = "scheduled"
          \/ \E t \in BagToSet(tasks) :
                t.op \in {"begin", "lobby_timeout"} /\ (t.peer = u \/ t.other = u)

----------------------------------------------------------------------------
(* One conversation from its registration to its tear-down: the peers write
   a bounded number of messages, end the dialog and evaluate as they like,
   the scheduler runs the inactivity jobs and the loop runs the coroutines *)

PeersAct ==
    \E c \in DOMAIN conversations : \E p \in Participants(c) :
       /\ Idle
       /\ \/ MsgRoom(c) /\ OnMessageReceived(c, p, Now) /\ UNCHANGED <<trigrams, replies>>
          \/ /\ c \notin DOMAIN evaluations /\ TriggerDialogEndCalled(c, p, "end")
             /\ UNCHANGED <<trigrams, replies>>
          \/ EvaluateDialog(c, p, FALSE, 0) /\ UNCHANGED gwVars
          \/ SelectOtherPeerProfile(c, p, FALSE, 0) /\ UNCHANGED gwVars

TimerFires == \E c \in DOMAIN dialogTimeoutHandlers : InactivityTimeout(c)

LoopRuns ==
    \E t \in BagToSet(tasks) :
       \/ MessageSent(t)
       \/ StartConversationFirst(t)
       \/ StartConversationSecond(t)
       \/ StartInactivityTimer(t)
       \/ StartEvaluations(t)
       \/ \E i \in {1, 2} : StartEvaluation(t, i)
       \/ HandleConversationTimeout(t)
       \/ FinishConversation(t)
       \/ CleanupConversation(t)

NextTeardown == PeersAct \/ TimerFires \/ LoopRuns

\* Scheduled jobs are run and ready coroutines are resumed; the peers are
\* under no obligation.
SpecTeardown ==
    /\ InitStore
    /\ [][NextTeardown]_vars
    /\ WF_vars(TimerFires)
    /\ WF_vars(LoopRuns)

----------------------------------------------------------------------------
(* The steps that are addressed to one conversation *)

\* A step of the orchestrator that is addressed to conversation c: a call
\* of a public method with the id of c by a participant, the inactivity job
\* of c, or the next step of a coroutine that delivers a message of c,
\* starts its evaluation, handles its timeout or cleans it up.
StepOn(c) ==
    \/ \E p \in Participants(c) :
          \/ OnMessageReceived(c, p, Now) /\ UNCHANGED <<trigrams, replies>>
          \/ OnMessageEvaluated(c, p, 1, FALSE, 0)
          \/ SwitchToNextTopic(c, p) /\ sent' = TopicSwitched(c, p)
          \/ TriggerDialogEndCalled(c, p, "end") /\ UNCHANGED <<trigrams, replies>>
          \/ EvaluateDialog(c, p, FALSE, 0) /\ UNCHANGED gwVars
          \/ SelectOtherPeerProfile(c, p, FALSE, 0) /\ UNCHANGED gwVars
    \/ c \in DOMAIN dialogTimeoutHandlers /\ InactivityTimeout(c)
    \/ \E t \in BagToSet(tasks) :
          /\ t.conv = c
          /\ \/ MessageSent(t)
             \/ StartEvaluations(t)
             \/ \E i \in {1, 2} : StartEvaluation(t, i)
             \/ HandleConversationTimeout(t)
             \/ FinishConversation(t)
             \/ CleanupConversation(t)

\* C40: a step addressed to a conversation leaves the messages, the
\* participants, the evaluation flags and the inactivity timer of every
\* other active conversation as they were, leaves the lobby as it was, and
\* sends nothing to the other conversation: no envelope of its chat to its
\* bot and no notice to its users, whose state and record in the gateway,
\* which change with the notices of start_evaluation and
\* finish_conversation, stay as they were.
C40_ConversationsIsolated ==
    [][LET Chat(b) == [bot \in Bots |->
                         SelectSeq(botQueues[bot], LAMBDA e : e.chat = b)]
           ChatAfter(b) == [bot \in Bots |->
                              SelectSeq(botQueues'[bot], LAMBDA e : e.chat = b)]
           Frame(b) ==
               /\ conversations'[b].messages = conversations[b].messages
               /\ conversations'[b].participants = conversations[b].participants
               /\ b \in activeDialogs'
               /\ (b \in DOMAIN evaluations') = (b \in DOMAIN evaluations)
               /\ b \in DOMAIN evaluations => evaluations'[b] = evaluations[b]
               /\ (b \in DOMAIN dialogTimeoutHandlers') = (b \in DOMAIN dialogTimeoutHandlers)
               /\ b \in DOMAIN dialogTimeoutHandlers =>
                     dialogTimeoutHandlers'[b] = dialogTimeoutHandlers[b]
               /\ lobby' = lobby
               /\ \A n \in sent' : n[1] \notin Participants(b)
               /\ \A u \in Participants(b) \cap Users :
                     /\ userState'[u] = userState[u]
                     /\ (u \in DOMAIN gwConversations') = (u \in DOMAIN gwConversations)
               /\ ChatAfter(b) = Chat(b)
       IN  \A a, b \in DOMAIN conversations :
              (a # b /\ b \in activeDialogs /\ ~Frame(b)) => ~StepOn(a)]_vars
====
